---- MODULE Spec2Model ----
(***************************************************************************)
(* A model of production_analyzer.py: the Response Recovery Parser          *)
(* (parse_json_with_recovery and its helpers), the Extraction Client's      *)
(* retry loop (analyze_page_with_gpt), the Processed-Set Tracker and the    *)
(* Batch Orchestrator (process_pdf, process_all_districts, the checkpoint   *)
(* writers and main's interrupt handler).                                   *)
(*                                                                         *)
(* Text is a sequence of one-character strings.  The alphabet is abstract:  *)
(* "s" is the word software (the key extract_json_objects looks for), "1"   *)
(* is a nonzero digit, "n" is the literal null, " " is any JSON whitespace. *)
(***************************************************************************)
EXTENDS Integers, Sequences, FiniteSets, Bags, TLC

VARIABLES
    content,      \* parse_json_with_recovery: the text handed to it
    ppc,          \* parse_json_with_recovery: the strategy about to run
    presult,      \* parse_json_with_recovery: the value returned
    responses,    \* analyze_page_with_gpt: what the service answers on attempts 1, 2, 3
    image_ok,     \* analyze_page_with_gpt: image_bytes is not empty
    call,         \* analyze_page_with_gpt: its locals (attempt, retry_delay), the sleeps
                  \* it made and what it returned
    stats,        \* self.stats
    tree,         \* the input: districts in sorted order, each with its PDFs in the
                  \* order they are processed, each page with what the service answers
    phase,        \* "first": the first run; "rerun": a second process, started later
    pc,           \* where process_all_districts stands
    district_idx, \* process_all_districts: the district at hand, counted from 1
    pdf_idx,      \* process_all_districts: the PDF at hand in the district, from 1
    page_idx,     \* process_pdf: page_num, the pages done so far
    pdf_records,  \* process_pdf: all_records
    all_records,  \* process_all_districts: all_records
    summary_data, \* process_all_districts: summary_data
    summary_row,  \* process_all_districts: summary_row of the district at hand
    processed_pdfs, \* self.processed_pdfs
    tracker_file, \* results/processed_pdfs.json
    main_csv,     \* results/extracted_software_data.csv
    summary_csv,  \* results/district_summary.csv
    loaded,       \* the set load_processed_pdfs returned when this process began
    pagelog,      \* history: the pages iterated so far, by run and by place in the tree, whether
                  \* the analysis of the page raised, and whether each was
                  \* sent to the service
    interrupted_at, \* history: the district at hand when the first run was interrupted
    listing,      \* get_round_folders: the subfolders of the district, in the order
                  \* district_path.iterdir() gives them
    scanned,      \* get_round_folders: the items of the listing visited so far
    round_folders, \* get_round_folders: round_folders, as pairs <<round, folder name>>
    peer_pc,      \* a second analyzer process on the same output directory: where it stands
    peer_pdfs,    \* the second process's self.processed_pdfs
    base_dir,     \* the entries of the input root, in the order iterdir() gives them
    config,       \* limit_districts and limit_pdfs_per_round of process_all_districts
    district_folders, \* process_all_districts: the district folders to go through
    handed        \* the PDFs handed to process_pdf so far, in order

parseVars == <<content, ppc, presult>>
retryVars == <<responses, image_ok, call>>
loopVars == <<pc, district_idx, pdf_idx, page_idx, pdf_records, all_records,
              summary_data, summary_row>>
diskVars == <<tracker_file, main_csv, summary_csv>>
batchVars == <<tree, phase, loopVars, processed_pdfs, loaded, diskVars, pagelog,
               interrupted_at>>

roundVars == <<listing, scanned, round_folders>>

peerVars == <<peer_pc, peer_pdfs>>

discoverVars == <<base_dir, config, district_folders, handed>>

vars == <<parseVars, retryVars, stats, batchVars, roundVars, peerVars, discoverVars>>

-----------------------------------------------------------------------------
(* Bounds *)

MaxRawLen == 3

-----------------------------------------------------------------------------
(* Characters *)

Quote == "\""
Backslash == "\\"
WS == " "
Alphabet == {"[", "]", "{", "}", ",", ":", Quote, Backslash, WS, "s", "1", "n"}

-----------------------------------------------------------------------------
(* JSON values: what json.loads builds *)

NoValue == [t |-> "none", v |-> <<>>]
JNull == [t |-> "null", v |-> <<>>]
JStr(cs) == [t |-> "str", v |-> cs]
JNum(ds) == [t |-> "num", v |-> ds]
JArr(items) == [t |-> "arr", v |-> items]
JObj(pairs) == [t |-> "obj", v |-> pairs]

Fail == [ok |-> FALSE, v |-> NoValue, e |-> 0]
Ok(val, end) == [ok |-> TRUE, v |-> val, e |-> end]

\* dict(pairs): a repeated key keeps its first position and takes the last value
RECURSIVE ObjPut(_, _, _)
ObjPut(pairs, key, val) ==
    IF pairs = <<>> THEN << <<key, val>> >>
    ELSE IF Head(pairs)[1] = key THEN << <<key, val>> >> \o Tail(pairs)
    ELSE <<Head(pairs)>> \o ObjPut(Tail(pairs), key, val)

\* dict.get(key): the value, or None
RECURSIVE ObjGet(_, _)
ObjGet(pairs, key) ==
    IF pairs = <<>> THEN JNull
    ELSE IF Head(pairs)[1] = key THEN Head(pairs)[2]
    ELSE ObjGet(Tail(pairs), key)

\* Python truth value of a JSON value
Truthy(val) ==
    CASE val.t = "null" -> FALSE
      [] val.t = "none" -> FALSE
      [] val.t = "num" -> TRUE
      [] OTHER -> val.v # <<>>

-----------------------------------------------------------------------------
(* json.loads *)

RECURSIVE SkipWs(_, _)
SkipWs(s, i) ==
    IF i <= Len(s) /\ s[i] = WS THEN SkipWs(s, i + 1) ELSE i

RECURSIVE SkipDigits(_, _)
SkipDigits(s, i) ==
    IF i <= Len(s) /\ s[i] = "1" THEN SkipDigits(s, i + 1) ELSE i

\* the characters a backslash may precede
EscapeChars == {Quote, Backslash, "n"}

\* i is the index after the opening quote
RECURSIVE scanstring(_, _, _)
scanstring(s, i, acc) ==
    IF i > Len(s) THEN Fail
    ELSE IF s[i] = Quote THEN Ok(JStr(acc), i + 1)
    ELSE IF s[i] = Backslash
         THEN IF i + 1 <= Len(s) /\ s[i + 1] \in EscapeChars
              THEN scanstring(s, i + 2, Append(acc, s[i + 1]))
              ELSE Fail
    ELSE scanstring(s, i + 1, Append(acc, s[i]))

RECURSIVE scan_once(_, _)
RECURSIVE JSONArrayItems(_, _, _)
RECURSIVE JSONObjectItems(_, _, _)

\* i is the index after the opening bracket
JSONArray(s, i) ==
    LET j == SkipWs(s, i)
    IN  IF j <= Len(s) /\ s[j] = "]" THEN Ok(JArr(<<>>), j + 1)
        ELSE JSONArrayItems(s, j, <<>>)

\* i is the index after the opening brace
JSONObject(s, i) ==
    LET j == SkipWs(s, i)
    IN  IF j > Len(s) THEN Fail
        ELSE IF s[j] = "}" THEN Ok(JObj(<<>>), j + 1)
        ELSE IF s[j] = Quote THEN JSONObjectItems(s, j + 1, <<>>)
        ELSE Fail

scan_once(s, i) ==
    IF i > Len(s) THEN Fail
    ELSE CASE s[i] = Quote -> scanstring(s, i + 1, <<>>)
           [] s[i] = "{" -> JSONObject(s, i + 1)
           [] s[i] = "[" -> JSONArray(s, i + 1)
           [] s[i] = "n" -> Ok(JNull, i + 1)
           [] s[i] = "1" -> Ok(JNum(SubSeq(s, i, SkipDigits(s, i) - 1)), SkipDigits(s, i))
           [] OTHER -> Fail

\* i is the index where the next element starts
JSONArrayItems(s, i, acc) ==
    LET r == scan_once(s, i)
        j == SkipWs(s, r.e)
    IN  IF ~r.ok THEN Fail
        ELSE IF j > Len(s) THEN Fail
        ELSE IF s[j] = "]" THEN Ok(JArr(Append(acc, r.v)), j + 1)
        ELSE IF s[j] = "," THEN JSONArrayItems(s, SkipWs(s, j + 1), Append(acc, r.v))
        ELSE Fail

\* i is the index after the opening quote of the next key
JSONObjectItems(s, i, acc) ==
    LET k == scanstring(s, i, <<>>)
        c == SkipWs(s, k.e)
        r == scan_once(s, SkipWs(s, c + 1))
        j == SkipWs(s, r.e)
        q == SkipWs(s, j + 1)
    IN  IF ~k.ok THEN Fail
        ELSE IF c > Len(s) THEN Fail
        ELSE IF s[c] # ":" THEN Fail
        ELSE IF ~r.ok THEN Fail
        ELSE IF j > Len(s) THEN Fail
        ELSE IF s[j] = "}" THEN Ok(JObj(ObjPut(acc, k.v.v, r.v)), j + 1)
        ELSE IF s[j] = ","
             THEN IF q <= Len(s) /\ s[q] = Quote
                  THEN JSONObjectItems(s, q + 1, ObjPut(acc, k.v.v, r.v))
                  ELSE Fail
        ELSE Fail

\* json.loads(s): ok is FALSE where it raises JSONDecodeError
json_loads(s) ==
    LET r == scan_once(s, SkipWs(s, 1))
    IN  IF r.ok /\ SkipWs(s, r.e) = Len(s) + 1
        THEN [ok |-> TRUE, v |-> r.v]
        ELSE [ok |-> FALSE, v |-> NoValue]

-----------------------------------------------------------------------------
(* parse_json_with_recovery and its helpers *)

\* re.sub(r',\s*([}\]])', r'\1', content), from index i on
RECURSIVE StripTrailingCommas(_, _)
StripTrailingCommas(s, i) ==
    IF i > Len(s) THEN <<>>
    ELSE IF s[i] = "," /\ SkipWs(s, i + 1) <= Len(s) /\ s[SkipWs(s, i + 1)] \in {"}", "]"}
         THEN <<s[SkipWs(s, i + 1)]>> \o StripTrailingCommas(s, SkipWs(s, i + 1) + 1)
         ELSE <<s[i]>> \o StripTrailingCommas(s, i + 1)

\* fixed_content.count('"') - fixed_content.count('\\"')
QuoteCount(s) ==
    Cardinality({i \in 1..Len(s) : s[i] = Quote})
    - Cardinality({i \in 1..(Len(s) - 1) : s[i] = Backslash /\ s[i + 1] = Quote})

\* the longest prefix content[:i], i from len(content) down to 1, that json.loads accepts
RECURSIVE LongestValidPrefix(_, _)
LongestValidPrefix(s, i) ==
    IF i = 0 THEN [found |-> FALSE, text |-> <<>>]
    ELSE IF json_loads(SubSeq(s, 1, i)).ok THEN [found |-> TRUE, text |-> SubSeq(s, 1, i)]
    ELSE LongestValidPrefix(s, i - 1)

find_last_complete_json(s) == LongestValidPrefix(s, Len(s))

\* the next "{" or "}" at or after i, or Len(s) + 1
RECURSIVE NextBrace(_, _)
NextBrace(s, i) ==
    IF i > Len(s) THEN i
    ELSE IF s[i] \in {"{", "}"} THEN i
    ELSE NextBrace(s, i + 1)

\* (?:\{[^{}]*\}[^{}]*)*\} with b the next brace: the index of the closing brace, or 0
RECURSIVE ObjectGroups(_, _)
ObjectGroups(s, b) ==
    IF b > Len(s) THEN 0
    ELSE IF s[b] = "}" THEN b
    ELSE IF NextBrace(s, b + 1) > Len(s) THEN 0
    ELSE IF s[NextBrace(s, b + 1)] # "}" THEN 0
    ELSE ObjectGroups(s, NextBrace(s, NextBrace(s, b + 1) + 1))

\* object_pattern matched at p: the index of its last character, or 0
MatchObjectAt(s, p) ==
    IF s[p] = "{" THEN ObjectGroups(s, NextBrace(s, p + 1)) ELSE 0

\* re.findall(object_pattern, content, re.DOTALL), from index p on
RECURSIVE FindObjects(_, _)
FindObjects(s, p) ==
    IF p > Len(s) THEN <<>>
    ELSE IF MatchObjectAt(s, p) > 0
         THEN <<SubSeq(s, p, MatchObjectAt(s, p))>> \o FindObjects(s, MatchObjectAt(s, p) + 1)
         ELSE FindObjects(s, p + 1)

SoftwareKey == <<"s">>

\* a filter that keeps every object that parses, with or without 'software'
RECURSIVE KeepSoftwareObjects_AnyObject(_)
KeepSoftwareObjects_AnyObject(matches) ==
    IF matches = <<>> THEN <<>>
    ELSE LET r == json_loads(Head(matches))
         IN  IF r.ok /\ r.v.t = "obj"
             THEN <<r.v>> \o KeepSoftwareObjects_AnyObject(Tail(matches))
             ELSE KeepSoftwareObjects_AnyObject(Tail(matches))

\* the objects of matches that parse and have a truthy 'software'
RECURSIVE KeepSoftwareObjects(_)
KeepSoftwareObjects(matches) ==
    IF matches = <<>> THEN <<>>
    ELSE LET r == json_loads(Head(matches))
         IN  IF r.ok /\ r.v.t = "obj" /\ Truthy(ObjGet(r.v.v, SoftwareKey))
             THEN <<r.v>> \o KeepSoftwareObjects(Tail(matches))
             ELSE KeepSoftwareObjects(Tail(matches))

extract_json_objects(s) == KeepSoftwareObjects(FindObjects(s, 1))

\* Each strategy: ok is TRUE where it returns v, FALSE where control falls to the next
Strategy1(s) == json_loads(s)

Strategy2(s) ==
    LET fixed == StripTrailingCommas(s, 1)
        last == find_last_complete_json(fixed)
    IN  IF QuoteCount(fixed) % 2 # 0 /\ last.found
        THEN json_loads(last.text)
        ELSE json_loads(fixed)

FirstIndex(s, c) ==
    IF \E i \in 1..Len(s) : s[i] = c
    THEN CHOOSE i \in 1..Len(s) : s[i] = c /\ \A j \in 1..(i - 1) : s[j] # c
    ELSE 0

LastIndex(s, c) ==
    IF \E i \in 1..Len(s) : s[i] = c
    THEN CHOOSE i \in 1..Len(s) : s[i] = c /\ \A j \in (i + 1)..Len(s) : s[j] # c
    ELSE 0

\* re.search(r'\[.*\]', content, re.DOTALL): from the first "[" to the last "]"
Strategy3(s) ==
    IF FirstIndex(s, "[") > 0 /\ LastIndex(s, "]") > FirstIndex(s, "[")
    THEN json_loads(SubSeq(s, FirstIndex(s, "["), LastIndex(s, "]")))
    ELSE [ok |-> FALSE, v |-> NoValue]

Strategy4(s) ==
    IF extract_json_objects(s) # <<>>
    THEN [ok |-> TRUE, v |-> JArr(extract_json_objects(s))]
    ELSE [ok |-> FALSE, v |-> NoValue]

\* a last strategy that returns an empty list instead of raising
Strategy5_ReturnsEmptyList(s) == [raised |-> FALSE, v |-> JArr(<<>>)]

\* every strategy failed: raise json.JSONDecodeError("All recovery strategies failed", ...)
Strategy5(s) == [raised |-> TRUE, v |-> NoValue]

\* a choice that lets the last successful strategy decide
FirstSuccess_LastWins(r1, r2, r3, r4, r5) ==
    IF r4.ok THEN [raised |-> FALSE, v |-> r4.v]
    ELSE IF r3.ok THEN [raised |-> FALSE, v |-> r3.v]
    ELSE IF r2.ok THEN [raised |-> FALSE, v |-> r2.v]
    ELSE IF r1.ok THEN [raised |-> FALSE, v |-> r1.v]
    ELSE r5

\* the first strategy that succeeds decides; raised is TRUE where the
\* JSONDecodeError of Strategy5 leaves the function
FirstSuccess(r1, r2, r3, r4, r5) ==
    IF r1.ok THEN [raised |-> FALSE, v |-> r1.v]
    ELSE IF r2.ok THEN [raised |-> FALSE, v |-> r2.v]
    ELSE IF r3.ok THEN [raised |-> FALSE, v |-> r3.v]
    ELSE IF r4.ok THEN [raised |-> FALSE, v |-> r4.v]
    ELSE r5

parse_json_with_recovery(s) ==
    FirstSuccess(Strategy1(s), Strategy2(s), Strategy3(s), Strategy4(s), Strategy5(s))

-----------------------------------------------------------------------------
(* analyze_page_with_gpt: one page's round trip, with retries *)

max_retries == 3
\* retry_delay = 2 seconds; delays are counted in tenths of a second
InitialRetryDelay == 20

Fence == "f"       \* the three-backtick marker
JsonTag == "j"     \* the word json after the marker

\* str.strip()
RECURSIVE LStrip(_)
LStrip(s) == IF s # <<>> /\ Head(s) = WS THEN LStrip(Tail(s)) ELSE s

RECURSIVE RStrip(_)
RStrip(s) == IF s # <<>> /\ s[Len(s)] = WS THEN RStrip(SubSeq(s, 1, Len(s) - 1)) ELSE s

Strip(s) == RStrip(LStrip(s))

\* s[from:] cut before its first Fence
RECURSIVE UpToFence(_, _)
UpToFence(s, from) ==
    IF from > Len(s) THEN <<>>
    ELSE IF s[from] = Fence THEN <<>>
    ELSE <<s[from]>> \o UpToFence(s, from + 1)

\* lines 398-409: strip, drop a leading code fence, strip
CleanResponse(raw) ==
    LET c == Strip(raw)
    IN  IF Len(c) >= 2 /\ c[1] = Fence /\ c[2] = JsonTag THEN Strip(UpToFence(c, 3))
        ELSE IF Len(c) >= 1 /\ c[1] = Fence THEN Strip(UpToFence(c, 2))
        ELSE c

\* the loop of lines 416-446 runs without raising: extracted_data is a list of
\* dicts, or an empty dict or string (nothing to iterate)
Convertible(val) ==
    \/ val.t = "arr" /\ \A i \in 1..Len(val.v) : val.v[i].t = "obj"
    \/ val.t \in {"obj", "str"} /\ val.v = <<>>

\* the context of one call: the page the records are stamped with
PageCtx(district, round_num, pdf_name, page_num) ==
    [district |-> district, round |-> round_num, source_file |-> pdf_name,
     page_num |-> page_num]

\* Keys of the dictionaries the model is asked for: one that is copied as it
\* is, one that goes through str(), and the two of the soft validation
CostTotalKey == <<"c">>
ContractStartYearKey == <<"y">>
MiscNotesKey == <<"m">>

\* dict.get(key, default)
RECURSIVE DictGet(_, _, _)
DictGet(pairs, key, default) ==
    IF pairs = <<>> THEN default
    ELSE IF Head(pairs)[1] = key THEN Head(pairs)[2]
    ELSE DictGet(Tail(pairs), key, default)

EmptyStr == JStr(<<>>)

\* str(value) and the formatting of a value inside an f-string: None gives
\* the text None, a number its digits, a string itself; a container under
\* these keys is written as the empty container
PyStr(val) ==
    CASE val.t = "str" -> val
      [] val.t = "num" -> JStr(val.v)
      [] val.t = "null" -> JStr(<<"N", "o", "n", "e">>)
      [] val.t = "arr" -> JStr(<<"[", "]">>)
      [] OTHER -> JStr(<<"{", "}">>)

\* self.year_to_round.get(year_str), lines 121-126: the expected round, or
\* the empty text where .get gives None
year_to_round(year_str) ==
    CASE year_str \in {<<"2", "0", "1", "5">>, <<"2", "0", "1", "6">>, <<"2", "0", "1", "7">>} -> "1"
      [] year_str = <<"2", "0", "1", "8">> -> "2"
      [] year_str = <<"2", "0", "1", "9">> -> "3"
      [] year_str = <<"2", "0", "2", "2">> -> "4"
      [] OTHER -> ""

\* a validation that accepts only the expected round's years
validate_round_year_Strict(round_num, year_str) ==
    year_str # <<>> /\ year_to_round(year_str) = round_num

\* validate_round_year, lines 213-222
validate_round_year(round_num, year_str) ==
    IF year_str = <<>> \/ round_num = "" THEN TRUE
    ELSE ~(year_to_round(year_str) # "" /\ year_to_round(year_str) # round_num)

\* "[Year-Round mismatch noted]"
MismatchNote == <<"[", "Y", "]">>

\* a validation that drops the dictionary's own notes
Validated_NoteOnly(pairs, round_num) ==
    IF PyStr(DictGet(pairs, ContractStartYearKey, EmptyStr)).v # <<>>
       /\ ~validate_round_year(round_num,
                               PyStr(DictGet(pairs, ContractStartYearKey, EmptyStr)).v)
    THEN ObjPut(pairs, MiscNotesKey, JStr(MismatchNote))
    ELSE pairs

\* lines 419-421: the dictionary after the soft validation
Validated(pairs, round_num) ==
    IF PyStr(DictGet(pairs, ContractStartYearKey, EmptyStr)).v # <<>>
       /\ ~validate_round_year(round_num,
                               PyStr(DictGet(pairs, ContractStartYearKey, EmptyStr)).v)
    THEN ObjPut(pairs, MiscNotesKey,
                JStr(Strip(PyStr(DictGet(pairs, MiscNotesKey, EmptyStr)).v
                           \o <<WS>> \o MismatchNote)))
    ELSE pairs

\* Keys a dictionary may hold that are named like the fields of the context
DistrictKey == <<"d">>
RoundKey == <<"r">>
SourceFileKey == <<"f">>
PageNumberKey == <<"p">>

\* a construction that lets the dictionary's own source_file pass
SoftwareRecord_DictionaryFirst(pairs, ctx) ==
    [district |-> ctx.district, round |-> ctx.round,
     source_file |-> IF DictGet(pairs, SourceFileKey, EmptyStr) = EmptyStr
                     THEN ctx.source_file
                     ELSE "dictionary",
     page_number |-> ToString(ctx.page_num + 1),
     software |-> DictGet(pairs, SoftwareKey, EmptyStr),
     cost_total |-> PyStr(DictGet(pairs, CostTotalKey, EmptyStr)),
     contract_start_year |-> PyStr(DictGet(pairs, ContractStartYearKey, EmptyStr)),
     misc_notes |-> DictGet(pairs, MiscNotesKey, EmptyStr)]

\* a construction that leaves out the page number's + 1
SoftwareRecord_ZeroBasedPage(pairs, ctx) ==
    [district |-> ctx.district, round |-> ctx.round, source_file |-> ctx.source_file,
     page_number |-> ToString(ctx.page_num),
     software |-> DictGet(pairs, SoftwareKey, EmptyStr),
     cost_total |-> PyStr(DictGet(pairs, CostTotalKey, EmptyStr)),
     contract_start_year |-> PyStr(DictGet(pairs, ContractStartYearKey, EmptyStr)),
     misc_notes |-> DictGet(pairs, MiscNotesKey, EmptyStr)]

\* SoftwareRecord(...) of lines 423-446: the fields of the context, and of
\* the dictionary one field of each way the code fills them
SoftwareRecord(pairs, ctx) ==
    [district |-> ctx.district, round |-> ctx.round, source_file |-> ctx.source_file,
     page_number |-> ToString(ctx.page_num + 1),
     software |-> DictGet(pairs, SoftwareKey, EmptyStr),
     cost_total |-> PyStr(DictGet(pairs, CostTotalKey, EmptyStr)),
     contract_start_year |-> PyStr(DictGet(pairs, ContractStartYearKey, EmptyStr)),
     misc_notes |-> DictGet(pairs, MiscNotesKey, EmptyStr)]

\* one pass of the loop of lines 417-447
ToRecord(item, ctx) == SoftwareRecord(Validated(item.v, ctx.round), ctx)

ToRecords(val, ctx) ==
    IF val.t = "arr" THEN [i \in 1..Len(val.v) |-> ToRecord(val.v[i], ctx)] ELSE <<>>

\* What the service does on one attempt
TransportFailure == [kind |-> "request", text |-> <<>>]
UnexpectedFailure == [kind |-> "unexpected", text |-> <<>>]
Answer(text) == [kind |-> "content", text |-> text]

\* The exception one attempt ends with, or "none"; parsed is what
\* parse_json_with_recovery makes of the cleaned answer
ExceptionOf(input, parsed) ==
    IF input.kind = "request" THEN "RequestException"
    ELSE IF input.kind = "unexpected" THEN "Exception"
    ELSE IF parsed.raised THEN "JSONDecodeError"
    ELSE IF ~Convertible(parsed.v) THEN "Exception"
    ELSE "none"

AttemptException(input) ==
    ExceptionOf(input, parse_json_with_recovery(CleanResponse(input.text)))

\* the except clauses without the final except Exception
Handler_NoGenericClause(exc) ==
    CASE exc = "JSONDecodeError" -> "json"
      [] exc = "RequestException" -> "request"
      [] OTHER -> "none"

\* The except clause that catches exc: lines 452, 460, 472
Handler(exc) ==
    CASE exc = "JSONDecodeError" -> "json"
      [] exc = "RequestException" -> "request"
      [] exc = "Exception" -> "generic"
      [] OTHER -> "none"

\* the locals of a call that has just begun
NewCall ==
    [state |-> "running", attempt |-> 0, retry_delay |-> InitialRetryDelay,
     sleeps |-> <<>>, records |-> <<>>]

Bump(st, counter, n) == [st EXCEPT ![counter] = @ + n]

\* retry_delay *= 1.5
Backoff(delay) == (delay * 3) \div 2

\* the last pass of the loop: attempt == max_retries - 1
LastAttempt(c) == c.attempt = max_retries - 1

\* An except clause on the last attempt: count the error, return []
GiveUp(c, st, exc) ==
    [c |-> [c EXCEPT !.state = "returned", !.records = <<>>],
     st |-> Bump(st, "errors_encountered", 1), exc |-> exc]

\* an except json.JSONDecodeError that returns an empty list as a success
OnJsonError_ReportsSuccess(c, st, exc) ==
    [c |-> [c EXCEPT !.state = "returned", !.records = <<>>], st |-> st, exc |-> exc]

\* an except json.JSONDecodeError that gives up on any attempt
OnJsonError_GivesUp(c, st, exc) == GiveUp(c, st, exc)

\* lines 452-458: except json.JSONDecodeError
OnJsonError(c, st, exc) ==
    IF LastAttempt(c) THEN GiveUp(c, st, exc)
    ELSE [c |-> [c EXCEPT !.attempt = @ + 1], st |-> st, exc |-> exc]

\* lines 460-482: except RequestException, except Exception
OnOtherError(c, st, exc) ==
    IF LastAttempt(c) THEN GiveUp(c, st, exc)
    ELSE [c |-> [c EXCEPT !.attempt = @ + 1,
                          !.sleeps = Append(@, c.retry_delay),
                          !.retry_delay = Backoff(@)],
          st |-> st, exc |-> exc]

\* lines 414-450: convert, count and return the records
\* a variant that takes an empty list of records for a failed page
OnSuccess_EmptyIsFailure(c, st, recs) ==
    [c |-> [c EXCEPT !.state = "returned", !.records = recs],
     st |-> IF recs = <<>>
            THEN Bump(st, "errors_encountered", 1)
            ELSE Bump(st, "software_records_extracted", Len(recs)),
     exc |-> "none"]

OnSuccess(c, st, recs) ==
    [c |-> [c EXCEPT !.state = "returned", !.records = recs],
     st |-> Bump(st, "software_records_extracted", Len(recs)), exc |-> "none"]

\* the handler of exc runs, or no handler catches it
Dispatch(exc, c, st, parsed, ctx) ==
    CASE exc = "none" -> OnSuccess(c, st, ToRecords(parsed.v, ctx))
      [] Handler(exc) = "json" -> OnJsonError(c, st, exc)
      [] Handler(exc) \in {"request", "generic"} -> OnOtherError(c, st, exc)
      [] OTHER -> [c |-> [c EXCEPT !.state = "raised"], st |-> st, exc |-> exc]

Attempted(c, st, input, parsed, ctx) ==
    Dispatch(ExceptionOf(input, parsed), c, Bump(st, "api_calls_made", 1), parsed, ctx)

\* One pass of the loop of lines 385-482: the call's locals (c), self.stats (st)
\* and the exception the pass ended with (exc)
AttemptStep(c, st, input, ctx) ==
    Attempted(c, st, input, parse_json_with_recovery(CleanResponse(input.text)), ctx)

\* The whole call: the passes of the loop until it returns
RECURSIVE RunAttempts(_, _, _)
RunAttempts(r, inputs, ctx) ==
    IF r.c.state # "running" THEN r
    ELSE RunAttempts(AttemptStep(r.c, r.st, inputs[r.c.attempt + 1], ctx), inputs, ctx)

\* lines 260-261 and the loop
analyze_page_with_gpt(has_image, inputs, st, ctx) ==
    IF ~has_image THEN [c |-> [NewCall EXCEPT !.state = "returned"], st |-> st, exc |-> "none"]
    ELSE RunAttempts([c |-> NewCall, st |-> st, exc |-> "none"], inputs, ctx)

-----------------------------------------------------------------------------
(* Texts the service may answer *)

Str(cs) == <<Quote>> \o cs \o <<Quote>>

\* {"software":"<name>"}
ObjectText(name) == <<"{">> \o Str(SoftwareKey) \o <<":">> \o Str(name) \o <<"}">>

OneRecordArray == <<"[">> \o ObjectText(<<"1">>) \o <<"]">>
TwoRecordArray == <<"[">> \o ObjectText(<<"1">>) \o <<",", WS>> \o ObjectText(<<"1", "1">>) \o <<"]">>
EmptyArray == <<"[", "]">>
TrailingCommaArray == <<"[">> \o ObjectText(<<"1">>) \o <<",", "]">>
FencedArray == <<Fence, JsonTag, WS>> \o OneRecordArray \o <<WS, Fence>>
ProseOnly == <<"s", WS, "s">>
BareNumber == <<"1", "1">>
TruncatedArray == <<"[">> \o ObjectText(<<"1">>) \o <<",", "{", Quote, "s">>

-----------------------------------------------------------------------------
(* The Processed-Set Tracker *)

TrackerSaveEvery == 5

\* The tracker document as json.load reads it.  A document written by
\* save_processed_pdfs holds the list of the identifiers and their count;
\* "partial" is text that is not JSON: an empty file or a document cut short
DocumentOf(list) ==
    [shape |-> "document", processed_pdfs |-> list, total_processed |-> Len(list)]
PartialDocument == [shape |-> "partial"]
NoDocument == [shape |-> "none"]

NoTrackerFile == [exists |-> FALSE, doc |-> NoDocument]

\* an identifier that leaves the district out
get_pdf_identifier_WithoutDistrict(pdf_name, district, round_num) == <<0, round_num, pdf_name>>

\* f"{district}/{round_num}/{pdf_path.name}", held by its three parts: a folder
\* name, a round token and a file name hold no slash, so the text and the
\* parts determine each other
get_pdf_identifier(pdf_name, district, round_num) == <<district, round_num, pdf_name>>

\* a membership test that never finds the PDF
is_pdf_already_processed_Never(set, pdf_name, district, round_num) == FALSE

is_pdf_already_processed(set, pdf_name, district, round_num) ==
    get_pdf_identifier(pdf_name, district, round_num) \in set

\* The try block of load_processed_pdfs (lines 141-150): the set it builds and
\* the exception that ends it, if any
LoadAttempt(file) ==
    IF ~file.exists THEN [exc |-> "none", set |-> {}]
    ELSE CASE file.doc.shape = "partial" -> [exc |-> "JSONDecodeError", set |-> {}]
           [] file.doc.shape = "array" -> [exc |-> "AttributeError", set |-> {}]
           [] file.doc.shape = "no_key" -> [exc |-> "none", set |-> {}]
           [] file.doc.shape = "number_value" -> [exc |-> "TypeError", set |-> {}]
           [] OTHER ->
                [exc |-> "none",
                 set |-> {file.doc.processed_pdfs[i] : i \in DOMAIN file.doc.processed_pdfs}]

\* a load that reads the list under another key
load_processed_pdfs_WrongKey(file) == {}

\* except Exception: return set()
load_processed_pdfs(file) ==
    IF LoadAttempt(file).exc = "none" THEN LoadAttempt(file).set ELSE {}

\* list(self.processed_pdfs): the elements in some order
RECURSIVE SetToList(_)
SetToList(set) ==
    IF set = {} THEN <<>>
    ELSE LET x == CHOOSE y \in set : TRUE
         IN  <<x>> \o SetToList(set \ {x})

\* open(self.processed_pdfs_file, 'w'), line 163: the file exists and is empty
open_for_writing(file) == [exists |-> TRUE, doc |-> PartialDocument]

\* the file after save_processed_pdfs has run to its end
save_processed_pdfs(set, file) == [exists |-> TRUE, doc |-> DocumentOf(SetToList(set))]

\* a save on every sixth identifier
SaveDue_EverySixth(set) == Cardinality(set) % (TrackerSaveEvery + 1) = 0

\* len(self.processed_pdfs) % 5 == 0
SaveDue(set) == Cardinality(set) % TrackerSaveEvery = 0

\* a mark that keeps in memory only the identifiers not saved yet
mark_pdf_as_processed_Flushes(set, file, pdf_name, district, round_num) ==
    LET added == set \cup {get_pdf_identifier(pdf_name, district, round_num)}
    IN  IF SaveDue(added)
        THEN [set |-> {}, file |-> save_processed_pdfs(added, file)]
        ELSE [set |-> added, file |-> file]

\* the set and the file after mark_pdf_as_processed
mark_pdf_as_processed(set, file, pdf_name, district, round_num) ==
    LET added == set \cup {get_pdf_identifier(pdf_name, district, round_num)}
    IN  [set |-> added,
         file |-> IF SaveDue(added) THEN save_processed_pdfs(added, file) ELSE file]

\* the set and the file after clear_tracking_file
clear_tracking_file(set, file) ==
    IF file.exists THEN [set |-> {}, file |-> NoTrackerFile]
    ELSE [set |-> set, file |-> file]

-----------------------------------------------------------------------------
(* The output tables *)

NoCsvFile == [exists |-> FALSE, rows |-> <<>>]

\* SoftwareRecord.to_dict, lines 64-89: the record under the column names
to_dict(record) ==
    [District |-> record.district, Software |-> record.software,
     Cost_total |-> record.cost_total,
     Contract_StartYear |-> record.contract_start_year,
     Misc_Notes |-> record.misc_notes, Round |-> record.round,
     Source_File |-> record.source_file, Page_Number |-> record.page_number]

\* what csv.DictWriter writes for a value: nothing for None, else str(value)
CsvCell(val) == IF val.t = "null" THEN <<>> ELSE PyStr(val).v

\* writer.writerow(record.to_dict()), line 928: the row of the table
writerow(d) ==
    [District |-> d.District, Software |-> CsvCell(d.Software),
     Cost_total |-> CsvCell(d.Cost_total),
     Contract_StartYear |-> CsvCell(d.Contract_StartYear),
     Misc_Notes |-> CsvCell(d.Misc_Notes), Round |-> d.Round,
     Source_File |-> d.Source_File, Page_Number |-> d.Page_Number]

RowsOf(records) == [i \in 1..Len(records) |-> writerow(to_dict(records[i]))]

\* a write that always opens the file with mode 'w'
write_detailed_csv_Overwrites(file, records, append_mode) ==
    IF records = <<>> THEN file ELSE [exists |-> TRUE, rows |-> RowsOf(records)]

\* the file after write_detailed_csv(records, output_path, append_mode)
write_detailed_csv(file, records, append_mode) ==
    IF records = <<>> THEN file
    ELSE IF append_mode /\ file.exists
         THEN [exists |-> TRUE, rows |-> file.rows \o RowsOf(records)]
         ELSE [exists |-> TRUE, rows |-> RowsOf(records)]

\* the file after write_summary_csv(summary_data, output_path, append_mode)
write_summary_csv(file, rows, append_mode) ==
    IF rows = <<>> THEN file
    ELSE IF append_mode /\ file.exists
         THEN [exists |-> TRUE, rows |-> file.rows \o rows]
         ELSE [exists |-> TRUE, rows |-> rows]

-----------------------------------------------------------------------------
(* The Batch Orchestrator: process_all_districts, process_pdf, main *)

CheckpointEvery == 5

ZeroStats ==
    [districts_processed |-> 0, pdfs_processed |-> 0, pages_analyzed |-> 0,
     software_records_extracted |-> 0, api_calls_made |-> 0, errors_encountered |-> 0]

CurDistrict == tree[district_idx]
CurPdf == CurDistrict.pdfs[pdf_idx]
CurId == get_pdf_identifier(CurPdf.name, CurDistrict.name, CurPdf.round)
HasPdf == pc = "pdf" /\ pdf_idx <= Len(CurDistrict.pdfs)

NewSummaryRow(name) == [District |-> name, Total_PDFs |-> 0, Software_Records |-> 0]

\* process_all_districts is entered: lines 750-774
StartRun ==
    /\ pc = "start"
    /\ pc' = "district"
    /\ district_idx' = 1
    /\ all_records' = <<>>
    /\ summary_data' = <<>>
    /\ UNCHANGED <<pdf_idx, page_idx, pdf_records, summary_row>>
    /\ UNCHANGED <<discoverVars, peerVars, roundVars, parseVars, retryVars, stats, tree, phase, processed_pdfs, loaded, diskVars,
                   pagelog, interrupted_at>>

\* the next district of the loop of line 776, or the end of the loop
NextDistrict ==
    /\ pc = "district"
    /\ IF district_idx <= Len(tree)
       THEN /\ pc' = "pdf"
            /\ pdf_idx' = 1
            /\ summary_row' = [NewSummaryRow(CurDistrict.name)
                                 EXCEPT !.Total_PDFs = Len(CurDistrict.pdfs)]
       ELSE /\ pc' = "final_csv"
            /\ UNCHANGED <<pdf_idx, summary_row>>
    /\ UNCHANGED <<district_idx, page_idx, pdf_records, all_records, summary_data>>
    /\ UNCHANGED <<discoverVars, peerVars, roundVars, parseVars, retryVars, stats, tree, phase, processed_pdfs, loaded, diskVars,
                   pagelog, interrupted_at>>

\* process_pdf, lines 584-586: the PDF is in the tracker
SkipProcessedPdf ==
    /\ HasPdf
    /\ is_pdf_already_processed(processed_pdfs, CurPdf.name, CurDistrict.name, CurPdf.round)
    /\ pdf_idx' = pdf_idx + 1
    /\ UNCHANGED <<pc, district_idx, page_idx, pdf_records, all_records, summary_data,
                   summary_row>>
    /\ UNCHANGED <<discoverVars, peerVars, roundVars, parseVars, retryVars, stats, tree, phase, processed_pdfs, loaded, diskVars,
                   pagelog, interrupted_at>>

\* a process_pdf that marks the PDF it could not open
OpenPdf_MarksUnopenable ==
    /\ HasPdf
    /\ ~is_pdf_already_processed(processed_pdfs, CurPdf.name, CurDistrict.name, CurPdf.round)
    /\ IF CurPdf.openable
       THEN /\ pc' = "page"
            /\ page_idx' = 0
            /\ pdf_records' = <<>>
            /\ UNCHANGED <<pdf_idx, stats, processed_pdfs>>
       ELSE /\ stats' = Bump(stats, "errors_encountered", 1)
            /\ pdf_idx' = pdf_idx + 1
            /\ processed_pdfs' = processed_pdfs \cup {CurId}
            /\ UNCHANGED <<pc, page_idx, pdf_records>>
    /\ UNCHANGED <<district_idx, all_records, summary_data, summary_row>>
    /\ UNCHANGED <<discoverVars, peerVars, roundVars, parseVars, retryVars, tree, phase, loaded, diskVars,
                   pagelog, interrupted_at>>

\* process_pdf, lines 588-593 and 619-622: fitz.open succeeds or raises
OpenPdf ==
    /\ HasPdf
    /\ ~is_pdf_already_processed(processed_pdfs, CurPdf.name, CurDistrict.name, CurPdf.round)
    /\ IF CurPdf.openable
       THEN /\ pc' = "page"
            /\ page_idx' = 0
            /\ pdf_records' = <<>>
            /\ UNCHANGED <<pdf_idx, stats>>
       ELSE /\ stats' = Bump(stats, "errors_encountered", 1)
            /\ pdf_idx' = pdf_idx + 1
            /\ UNCHANGED <<pc, page_idx, pdf_records>>
    /\ UNCHANGED <<district_idx, all_records, summary_data, summary_row>>
    /\ UNCHANGED <<discoverVars, peerVars, roundVars, parseVars, retryVars, tree, phase, processed_pdfs, loaded, diskVars,
                   pagelog, interrupted_at>>

\* process_pdf after analyze_page_with_gpt gave r: lines 605-610, or 619-622
\* where an exception left it
AfterAnalyze(r) ==
    IF r.c.state = "raised"
    THEN /\ stats' = Bump(r.st, "errors_encountered", 1)
         /\ pc' = "pdf"
         /\ pdf_idx' = pdf_idx + 1
         /\ UNCHANGED <<page_idx, pdf_records>>
    ELSE /\ stats' = Bump(r.st, "pages_analyzed", 1)
         /\ pdf_records' = pdf_records \o r.c.records
         /\ page_idx' = page_idx + 1
         /\ UNCHANGED <<pc, pdf_idx>>

\* process_pdf, lines 596-610: one page
ProcessPageOf(page) ==
    LET r == analyze_page_with_gpt(page.image_ok, page.responses, stats,
                 PageCtx(CurDistrict.name, CurPdf.round, CurPdf.name, page_idx))
    IN  /\ pagelog' = pagelog \cup
               {[run |-> phase, id |-> CurId, at |-> <<district_idx, pdf_idx>>,
                 page |-> page_idx, sent |-> page.image_ok,
                 raised |-> (r.c.state = "raised")]}
        /\ AfterAnalyze(r)

ProcessPage ==
    /\ pc = "page"
    /\ page_idx < Len(CurPdf.pages)
    /\ ProcessPageOf(CurPdf.pages[page_idx + 1])
    /\ UNCHANGED <<district_idx, all_records, summary_data, summary_row>>
    /\ UNCHANGED <<discoverVars, peerVars, roundVars, parseVars, retryVars, tree, phase, processed_pdfs, loaded, diskVars,
                   interrupted_at>>

\* a loop that may stop one page short
PagesDone_OnePageShort(done, total_pages) == done >= total_pages - 1

\* the loop of line 596 has run for every page
PagesDone(done, total_pages) == done = total_pages

\* the caller's lines 822-823, after process_pdf has returned
CollectPdf ==
    /\ all_records' = all_records \o pdf_records
    /\ summary_row' = [summary_row EXCEPT !.Software_Records = @ + Len(pdf_records)]
    /\ pdf_idx' = pdf_idx + 1
    /\ pc' = "pdf"

\* process_pdf, lines 612-617: to its return when no save is due, and else to
\* the open of line 163 inside mark_pdf_as_processed
FinishPdf ==
    /\ pc = "page"
    /\ PagesDone(page_idx, Len(CurPdf.pages))
    /\ stats' = Bump(stats, "pdfs_processed", 1)
    /\ processed_pdfs' = mark_pdf_as_processed(processed_pdfs, tracker_file, CurPdf.name,
                                               CurDistrict.name, CurPdf.round).set
    /\ IF SaveDue(processed_pdfs')
       THEN /\ tracker_file' = open_for_writing(tracker_file)
            /\ pc' = "mark_writing"
            /\ UNCHANGED <<all_records, summary_row, pdf_idx>>
       ELSE /\ UNCHANGED tracker_file
            /\ CollectPdf
    /\ UNCHANGED <<district_idx, page_idx, pdf_records, summary_data>>
    /\ UNCHANGED <<discoverVars, peerVars, roundVars, parseVars, retryVars, tree, phase, loaded, main_csv, summary_csv,
                   pagelog, interrupted_at>>

\* json.dump of line 164 inside mark_pdf_as_processed, then the return
WriteMarkedTracker ==
    /\ pc = "mark_writing"
    /\ tracker_file' = save_processed_pdfs(processed_pdfs, tracker_file)
    /\ CollectPdf
    /\ UNCHANGED <<district_idx, page_idx, pdf_records, summary_data>>
    /\ UNCHANGED <<discoverVars, peerVars, roundVars, parseVars, retryVars, stats, tree, phase, processed_pdfs, loaded,
                   main_csv, summary_csv, pagelog, interrupted_at>>

\* a run that saves only at its end
CheckpointDue_Never(districts_processed) == FALSE

\* self.stats['districts_processed'] % 5 == 0, line 841
CheckpointDue(districts_processed) == districts_processed % CheckpointEvery = 0

\* lines 837-842: the district is done
FinishDistrict ==
    /\ pc = "pdf"
    /\ pdf_idx > Len(CurDistrict.pdfs)
    /\ summary_data' = Append(summary_data, summary_row)
    /\ stats' = Bump(stats, "districts_processed", 1)
    /\ IF CheckpointDue(stats'.districts_processed)
       THEN pc' = "checkpoint_csv" /\ UNCHANGED district_idx
       ELSE pc' = "district" /\ district_idx' = district_idx + 1
    /\ UNCHANGED <<pdf_idx, page_idx, pdf_records, all_records, summary_row>>
    /\ UNCHANGED <<discoverVars, peerVars, roundVars, parseVars, retryVars, tree, phase, processed_pdfs, loaded, diskVars,
                   pagelog, interrupted_at>>

\* save_intermediate_results, lines 872-873: append to the main files
SaveIntermediateTables ==
    /\ pc = "checkpoint_csv"
    /\ main_csv' = write_detailed_csv(main_csv, all_records, TRUE)
    /\ summary_csv' = write_summary_csv(summary_csv, summary_data, TRUE)
    /\ pc' = "checkpoint_tracker"
    /\ UNCHANGED <<district_idx, pdf_idx, page_idx, pdf_records, all_records,
                   summary_data, summary_row>>
    /\ UNCHANGED <<discoverVars, peerVars, roundVars, parseVars, retryVars, stats, tree, phase, processed_pdfs, loaded,
                   tracker_file, pagelog, interrupted_at>>

\* save_intermediate_results, line 876: save_processed_pdfs to the open of
\* line 163
SaveIntermediateTracker ==
    /\ pc = "checkpoint_tracker"
    /\ tracker_file' = open_for_writing(tracker_file)
    /\ pc' = "checkpoint_writing"
    /\ UNCHANGED <<district_idx, pdf_idx, page_idx, pdf_records, all_records,
                   summary_data, summary_row>>
    /\ UNCHANGED <<discoverVars, peerVars, roundVars, parseVars, retryVars, stats, tree, phase, processed_pdfs, loaded,
                   main_csv, summary_csv, pagelog, interrupted_at>>

\* json.dump of line 164, and back to the loop
WriteIntermediateTracker ==
    /\ pc = "checkpoint_writing"
    /\ tracker_file' = save_processed_pdfs(processed_pdfs, tracker_file)
    /\ pc' = "district"
    /\ district_idx' = district_idx + 1
    /\ UNCHANGED <<pdf_idx, page_idx, pdf_records, all_records, summary_data, summary_row>>
    /\ UNCHANGED <<discoverVars, peerVars, roundVars, parseVars, retryVars, stats, tree, phase, processed_pdfs, loaded,
                   main_csv, summary_csv, pagelog, interrupted_at>>

\* save_final_results, lines 892-893
SaveFinalTables ==
    /\ pc = "final_csv"
    /\ main_csv' = write_detailed_csv(main_csv, all_records, TRUE)
    /\ summary_csv' = write_summary_csv(summary_csv, summary_data, TRUE)
    /\ pc' = "final_tracker"
    /\ UNCHANGED <<district_idx, pdf_idx, page_idx, pdf_records, all_records,
                   summary_data, summary_row>>
    /\ UNCHANGED <<discoverVars, peerVars, roundVars, parseVars, retryVars, stats, tree, phase, processed_pdfs, loaded,
                   tracker_file, pagelog, interrupted_at>>

\* save_final_results, line 896: save_processed_pdfs to the open of line 163
SaveFinalTracker ==
    /\ pc = "final_tracker"
    /\ tracker_file' = open_for_writing(tracker_file)
    /\ pc' = "final_writing"
    /\ UNCHANGED <<district_idx, pdf_idx, page_idx, pdf_records, all_records,
                   summary_data, summary_row>>
    /\ UNCHANGED <<discoverVars, peerVars, roundVars, parseVars, retryVars, stats, tree, phase, processed_pdfs, loaded,
                   main_csv, summary_csv, pagelog, interrupted_at>>

\* json.dump of line 164, and the end of the run
WriteFinalTracker ==
    /\ pc = "final_writing"
    /\ tracker_file' = save_processed_pdfs(processed_pdfs, tracker_file)
    /\ pc' = "done"
    /\ UNCHANGED <<district_idx, pdf_idx, page_idx, pdf_records, all_records,
                   summary_data, summary_row>>
    /\ UNCHANGED <<discoverVars, peerVars, roundVars, parseVars, retryVars, stats, tree, phase, processed_pdfs, loaded,
                   main_csv, summary_csv, pagelog, interrupted_at>>

Running ==
    pc \in {"start", "district", "pdf", "page", "mark_writing", "checkpoint_csv",
            "checkpoint_tracker", "checkpoint_writing", "final_csv", "final_tracker",
            "final_writing"}

\* main, lines 1089-1090: KeyboardInterrupt is caught and logged; the process ends
Interrupt ==
    /\ Running
    /\ pc' = "exited"
    /\ interrupted_at' = IF phase = "first" THEN district_idx ELSE interrupted_at
    /\ UNCHANGED <<district_idx, pdf_idx, page_idx, pdf_records, all_records,
                   summary_data, summary_row>>
    /\ UNCHANGED <<discoverVars, peerVars, roundVars, parseVars, retryVars, stats, tree, phase, processed_pdfs, loaded,
                   diskVars, pagelog>>

\* The program is started again: __init__ (lines 94-137) loads the tracker
Rerun ==
    /\ pc \in {"exited", "done"}
    /\ phase = "first"
    /\ phase' = "rerun"
    /\ processed_pdfs' = load_processed_pdfs(tracker_file)
    /\ loaded' = load_processed_pdfs(tracker_file)
    /\ stats' = ZeroStats
    /\ pc' = "start"
    /\ district_idx' = 0
    /\ pdf_idx' = 0
    /\ page_idx' = 0
    /\ pdf_records' = <<>>
    /\ all_records' = <<>>
    /\ summary_data' = <<>>
    /\ summary_row' = NewSummaryRow(0)
    /\ UNCHANGED <<discoverVars, peerVars, roundVars, parseVars, retryVars, tree, diskVars, pagelog, interrupted_at>>

-----------------------------------------------------------------------------
(* Inputs *)

MaxDistricts == 6

Page(has_image, answers) == [image_ok |-> has_image, responses |-> answers]
Always(input) == [i \in 1..max_retries |-> input]

GoodPage == Page(TRUE, Always(Answer(OneRecordArray)))
EmptyPage == Page(TRUE, Always(Answer(EmptyArray)))
FailedPage == Page(TRUE, <<TransportFailure, Answer(ProseOnly), UnexpectedFailure>>)
RetriedPage == Page(TRUE, <<TransportFailure, Answer(ProseOnly), Answer(TwoRecordArray)>>)
UnrenderedPage == Page(FALSE, Always(TransportFailure))

Pdf(name, round_num, pages) ==
    [name |-> name, round |-> round_num, openable |-> TRUE, pages |-> pages]
BrokenPdf(name, round_num) ==
    [name |-> name, round |-> round_num, openable |-> FALSE, pages |-> <<>>]

\* The PDFs of one district, in processing order: by round, then by page count
PlainDistrict == <<Pdf("a", "1", <<GoodPage>>)>>
TwoPageDistrict == <<Pdf("a", "1", <<GoodPage, EmptyPage>>)>>
DistrictShapes ==
    { PlainDistrict,
      TwoPageDistrict,
      <<Pdf("a", "1", <<GoodPage>>), Pdf("b", "2", <<GoodPage, EmptyPage>>)>>,
      <<BrokenPdf("a", "1"), Pdf("b", "1", <<UnrenderedPage, FailedPage>>)>>,
      <<Pdf("a", "3", <<RetriedPage>>)>>,
      <<>> }

\* Input trees: n districts, all plain but one
Trees ==
    UNION { { [i \in 1..n |-> [name |-> i,
                               pdfs |-> IF i = k THEN shape ELSE PlainDistrict]]
              : k \in 1..n, shape \in DistrictShapes }
            : n \in 1..MaxDistricts }

AttemptInputs ==
    {TransportFailure, UnexpectedFailure}
    \cup {Answer(t) : t \in {OneRecordArray, EmptyArray, TrailingCommaArray, FencedArray,
                             ProseOnly, BareNumber}}

RawTexts(n) == UNION {[1..k -> Alphabet] : k \in 0..n}

SampleTexts ==
    {OneRecordArray, TwoRecordArray, EmptyArray, TrailingCommaArray, ProseOnly,
     BareNumber, TruncatedArray, ObjectText(<<"1">>),
     ProseOnly \o OneRecordArray \o ProseOnly,
     ObjectText(<<"1">>) \o <<WS>> \o ObjectText(<<>>) \o <<"{">>}

\* Lists of record dictionaries, the text json.dumps makes of one, and that
\* text with one comma put before the closing bracket of the array
RecordValues == {<<"1">>, <<",", "]">>, <<",", WS, "}">>}

RecordLists == UNION {[1..n -> RecordValues] : n \in 1..2}

DumpRecord(value) == <<"{">> \o Str(SoftwareKey) \o <<":", WS>> \o Str(value) \o <<"}">>

RECURSIVE DumpRecords(_, _)
DumpRecords(values, i) ==
    IF i > Len(values) THEN <<>>
    ELSE (IF i > 1 THEN <<",", WS>> ELSE <<>>) \o DumpRecord(values[i])
         \o DumpRecords(values, i + 1)

json_dumps(values) == <<"[">> \o DumpRecords(values, 1) \o <<"]">>

InjectTrailingComma(text) == SubSeq(text, 1, Len(text) - 1) \o <<",", "]">>

\* the list of dictionaries itself, as a JSON value
ListValue(values) ==
    JArr([i \in 1..Len(values) |-> JObj(<< <<SoftwareKey, JStr(values[i])>> >>)])

TrailingCommaTexts == {InjectTrailingComma(json_dumps(l)) : l \in RecordLists}

\* Answers that hold one JSON array inside a code fence or inside prose; the
\* prose may hold a bracketed word, which is not JSON
AnswerArrays == {EmptyArray, OneRecordArray, TwoRecordArray}

BracketedWord == <<"[", "s", "]">>

Embeddings(array) ==
    { <<Fence, JsonTag, WS>> \o array \o <<WS, Fence>>,
      <<Fence, WS>> \o array \o <<WS, Fence>>,
      ProseOnly \o <<WS, Fence, JsonTag, WS>> \o array \o <<WS, Fence>>,
      ProseOnly \o <<WS>> \o array \o <<WS>> \o ProseOnly,
      BracketedWord \o <<WS>> \o array,
      array \o <<WS>> \o BracketedWord }

EmbeddedArrays == UNION {{[raw |-> raw, array |-> a] : raw \in Embeddings(a)} : a \in AnswerArrays}

CleanedAnswers == {CleanResponse(e.raw) : e \in EmbeddedArrays}

ParseInputs ==
    RawTexts(MaxRawLen) \cup SampleTexts \cup TrailingCommaTexts \cup CleanedAnswers

-----------------------------------------------------------------------------
(* The parts of the state a specification leaves alone *)

ParseIdle == content = <<>> /\ ppc = "idle" /\ presult = NoValue

RoundIdle == listing = <<>> /\ scanned = 0 /\ round_folders = {}

\* no second process
PeerIdle == peer_pc = "absent" /\ peer_pdfs = {}

NoConfig == [limit_districts |-> "None", limit_pdfs_per_round |-> "None"]

\* the run is not looking for districts
DiscoverIdle ==
    base_dir = <<>> /\ config = NoConfig /\ district_folders = <<>> /\ handed = <<>>

RetryIdle ==
    /\ responses = Always(TransportFailure)
    /\ image_ok = FALSE
    /\ call = [NewCall EXCEPT !.state = "idle"]

BatchIdle ==
    /\ tree = <<>>
    /\ phase = "idle"
    /\ pc = "idle"
    /\ district_idx = 0
    /\ pdf_idx = 0
    /\ page_idx = 0
    /\ pdf_records = <<>>
    /\ all_records = <<>>
    /\ summary_data = <<>>
    /\ summary_row = NewSummaryRow(0)
    /\ processed_pdfs = {}
    /\ loaded = {}
    /\ tracker_file = NoTrackerFile
    /\ main_csv = NoCsvFile
    /\ summary_csv = NoCsvFile
    /\ pagelog = {}
    /\ interrupted_at = 0

-----------------------------------------------------------------------------
(* Spec: runs of the batch, interrupted or not, and a rerun *)

Init ==
    /\ tree \in Trees
    /\ phase = "first"
    /\ pc = "start"
    /\ district_idx = 0
    /\ pdf_idx = 0
    /\ page_idx = 0
    /\ pdf_records = <<>>
    /\ all_records = <<>>
    /\ summary_data = <<>>
    /\ summary_row = NewSummaryRow(0)
    /\ processed_pdfs = load_processed_pdfs(NoTrackerFile)
    /\ loaded = load_processed_pdfs(NoTrackerFile)
    /\ tracker_file = NoTrackerFile
    /\ main_csv = NoCsvFile
    /\ summary_csv = NoCsvFile
    /\ pagelog = {}
    /\ interrupted_at = 0
    /\ stats = ZeroStats
    /\ ParseIdle
    /\ RetryIdle
    /\ RoundIdle
    /\ PeerIdle
    /\ DiscoverIdle

Next ==
    \/ StartRun
    \/ NextDistrict
    \/ SkipProcessedPdf
    \/ OpenPdf
    \/ ProcessPage
    \/ FinishPdf
    \/ WriteMarkedTracker
    \/ FinishDistrict
    \/ SaveIntermediateTables
    \/ SaveIntermediateTracker
    \/ WriteIntermediateTracker
    \/ SaveFinalTables
    \/ SaveFinalTracker
    \/ WriteFinalTracker
    \/ Interrupt
    \/ Rerun

Spec == Init /\ [][Next]_vars

-----------------------------------------------------------------------------
(* SpecRetry: one call of analyze_page_with_gpt, pass by pass *)

\* the arguments of the call: page_num is the page index of the caller's loop
RetryCtx == PageCtx(1, "1", "a", page_idx)

InitRetry ==
    /\ responses \in [1..max_retries -> AttemptInputs]
    /\ image_ok \in BOOLEAN
    /\ call = NewCall
    /\ stats = ZeroStats
    /\ ParseIdle
    /\ BatchIdle
    /\ RoundIdle
    /\ PeerIdle
    /\ DiscoverIdle

Attempting == call.state = "running" /\ image_ok

\* a pass of the loop that ends with exc
Pass(outcome, exc) ==
    /\ outcome.exc = exc
    /\ call' = outcome.c
    /\ stats' = outcome.st
    /\ UNCHANGED <<discoverVars, peerVars, roundVars, responses, image_ok, parseVars, batchVars>>

\* lines 260-261
ReturnNoImage ==
    /\ call.state = "running"
    /\ ~image_ok
    /\ call' = analyze_page_with_gpt(FALSE, responses, stats, RetryCtx).c
    /\ UNCHANGED <<discoverVars, peerVars, roundVars, responses, image_ok, stats, parseVars, batchVars>>

\* a pass that returns the records
AttemptSucceeds ==
    /\ Attempting
    /\ Pass(AttemptStep(call, stats, responses[call.attempt + 1], RetryCtx), "none")

\* a pass that ends in except json.JSONDecodeError
AttemptJsonError ==
    /\ Attempting
    /\ Pass(AttemptStep(call, stats, responses[call.attempt + 1], RetryCtx), "JSONDecodeError")

\* a pass that ends in except requests.exceptions.RequestException
AttemptRequestError ==
    /\ Attempting
    /\ Pass(AttemptStep(call, stats, responses[call.attempt + 1], RetryCtx), "RequestException")

\* a pass that ends in except Exception
AttemptUnexpectedError ==
    /\ Attempting
    /\ Pass(AttemptStep(call, stats, responses[call.attempt + 1], RetryCtx), "Exception")

NextRetry ==
    \/ ReturnNoImage
    \/ AttemptSucceeds
    \/ AttemptJsonError
    \/ AttemptRequestError
    \/ AttemptUnexpectedError

SpecRetry == InitRetry /\ [][NextRetry]_vars

-----------------------------------------------------------------------------
(* SpecParse: one call of parse_json_with_recovery, strategy by strategy *)

InitParse ==
    /\ content \in ParseInputs
    /\ ppc = "strategy1"
    /\ presult = NoValue
    /\ stats = ZeroStats
    /\ RetryIdle
    /\ BatchIdle
    /\ RoundIdle
    /\ PeerIdle
    /\ DiscoverIdle

\* a strategy's outcome: return its value, or go on to the next strategy
Try(outcome, next) ==
    /\ IF outcome.ok
       THEN ppc' = "returned" /\ presult' = outcome.v
       ELSE ppc' = next /\ UNCHANGED presult
    /\ UNCHANGED <<discoverVars, peerVars, roundVars, content, retryVars, stats, batchVars>>

TryDirectParse == ppc = "strategy1" /\ Try(Strategy1(content), "strategy2")
TrySyntacticRepair == ppc = "strategy2" /\ Try(Strategy2(content), "strategy3")
TryArrayExtraction == ppc = "strategy3" /\ Try(Strategy3(content), "strategy4")
TryObjectSalvage == ppc = "strategy4" /\ Try(Strategy4(content), "strategy5")

\* the end of the function: what Strategy5 does
Finish(outcome) ==
    /\ ppc' = IF outcome.raised THEN "raised" ELSE "returned"
    /\ presult' = outcome.v
    /\ UNCHANGED <<discoverVars, peerVars, roundVars, content, retryVars, stats, batchVars>>

AllFailed == ppc = "strategy5" /\ Finish(Strategy5(content))

NextParse ==
    \/ TryDirectParse
    \/ TrySyntacticRepair
    \/ TryArrayExtraction
    \/ TryObjectSalvage
    \/ AllFailed

SpecParse == InitParse /\ [][NextParse]_vars

-----------------------------------------------------------------------------
(* SpecTracker: the Processed-Set Tracker's operations on one document, in  *)
(* processes that may die at any point and be started again                 *)

MaxIds == 6

TrackerIds == {get_pdf_identifier("a", d, "1") : d \in 1..MaxIds}

FirstIds(k) == {get_pdf_identifier("a", d, "1") : d \in 1..k}

\* set("xy"): the characters of a string found under the key
StrayElements == <<get_pdf_identifier("x", 0, ""), get_pdf_identifier("y", 0, "")>>

\* Documents save_processed_pdfs did not write: text that is not JSON, a JSON
\* array, an object without the key, and the key with a number or a string
ForeignDocuments ==
    { PartialDocument, [shape |-> "array"], [shape |-> "no_key"],
      [shape |-> "number_value"],
      [shape |-> "string_value", processed_pdfs |-> StrayElements] }

\* What the process may find on disk when it starts
StartFiles ==
    {NoTrackerFile}
    \cup {save_processed_pdfs(FirstIds(k), NoTrackerFile) : k \in 0..MaxIds}
    \cup {[exists |-> TRUE, doc |-> d] : d \in ForeignDocuments}

\* __init__, line 109
InitTracker ==
    /\ tracker_file \in StartFiles
    /\ processed_pdfs = load_processed_pdfs(tracker_file)
    /\ loaded = load_processed_pdfs(tracker_file)
    /\ pc = "loaded"
    /\ tree = <<>>
    /\ phase = "idle"
    /\ district_idx = 0
    /\ pdf_idx = 0
    /\ page_idx = 0
    /\ pdf_records = <<>>
    /\ all_records = <<>>
    /\ summary_data = <<>>
    /\ summary_row = NewSummaryRow(0)
    /\ main_csv = NoCsvFile
    /\ summary_csv = NoCsvFile
    /\ pagelog = {}
    /\ interrupted_at = 0
    /\ stats = ZeroStats
    /\ ParseIdle
    /\ RetryIdle
    /\ RoundIdle
    /\ PeerIdle
    /\ DiscoverIdle

trackerRest ==
    <<discoverVars, peerVars, roundVars, parseVars, retryVars, stats, tree, phase, district_idx, pdf_idx, page_idx,
      pdf_records, all_records, summary_data, summary_row, main_csv, summary_csv,
      pagelog, interrupted_at>>

\* between two operations: after the load, after a clear, after any other
BetweenOperations == pc \in {"loaded", "cleared", "ready"}

\* mark_pdf_as_processed up to the open of line 163, or to its end when no
\* save is due
MarkOp(id) ==
    /\ BetweenOperations
    /\ processed_pdfs' =
           mark_pdf_as_processed(processed_pdfs, tracker_file, id[3], id[1], id[2]).set
    /\ IF SaveDue(processed_pdfs')
       THEN tracker_file' = open_for_writing(tracker_file) /\ pc' = "saving"
       ELSE UNCHANGED tracker_file /\ pc' = "ready"
    /\ UNCHANGED <<loaded, trackerRest>>

MarkSome == \E id \in TrackerIds : MarkOp(id)

\* save_processed_pdfs, called by a checkpoint, up to the open of line 163
SaveOp ==
    /\ BetweenOperations
    /\ tracker_file' = open_for_writing(tracker_file)
    /\ pc' = "saving"
    /\ UNCHANGED <<processed_pdfs, loaded, trackerRest>>

\* json.dump, line 164, and the close of the file
WriteDocument ==
    /\ pc = "saving"
    /\ tracker_file' = save_processed_pdfs(processed_pdfs, tracker_file)
    /\ pc' = "ready"
    /\ UNCHANGED <<processed_pdfs, loaded, trackerRest>>

\* clear_tracking_file
ClearOp ==
    /\ BetweenOperations
    /\ processed_pdfs' = clear_tracking_file(processed_pdfs, tracker_file).set
    /\ tracker_file' = clear_tracking_file(processed_pdfs, tracker_file).file
    /\ pc' = "cleared"
    /\ UNCHANGED <<loaded, trackerRest>>

\* the process dies: an interrupt, a kill, a power cut
Crash ==
    /\ pc \in {"loaded", "cleared", "ready", "saving"}
    /\ pc' = "crashed"
    /\ UNCHANGED <<processed_pdfs, loaded, tracker_file, trackerRest>>

\* a new process: __init__ loads the document
StartAgain ==
    /\ pc = "crashed"
    /\ processed_pdfs' = load_processed_pdfs(tracker_file)
    /\ loaded' = load_processed_pdfs(tracker_file)
    /\ pc' = "loaded"
    /\ UNCHANGED <<tracker_file, trackerRest>>

NextTracker ==
    \/ MarkSome
    \/ SaveOp
    \/ WriteDocument
    \/ ClearOp
    \/ Crash
    \/ StartAgain

SpecTracker == InitTracker /\ [][NextTracker]_vars

-----------------------------------------------------------------------------
(* SpecPersist: a run of the batch, and a second one after its end, on a     *)
(* device whose writes may fail with an I/O error                            *)

\* The writes of a checkpoint, in the order the two save functions make them:
\* the timestamped snapshot files, the main tables, the tracker document
PersistenceSteps == {"snapshot", "main_table", "tracker"}

\* The innermost except clause around the write: save_processed_pdfs has its
\* own (line 166); write_detailed_csv, write_summary_csv and the two save
\* functions have none, and process_all_districts has none, so the error
\* reaches main (line 1091)
HandlerOfWrite(step) == IF step = "tracker" THEN "save_processed_pdfs" ELSE "main"

\* where the run is when the write of this step is about to be made
AtWrite(step) ==
    IF step = "tracker"
    THEN pc \in {"checkpoint_tracker", "final_tracker"}
    ELSE pc \in {"checkpoint_csv", "final_csv"}

\* The write raises OSError before anything reaches the file
WriteFails(step) ==
    /\ AtWrite(step)
    /\ IF HandlerOfWrite(step) = "main"
       THEN /\ pc' = "failed"
            /\ UNCHANGED district_idx
       ELSE IF pc = "checkpoint_tracker"
            THEN /\ pc' = "district"
                 /\ district_idx' = district_idx + 1
            ELSE /\ pc' = "done"
                 /\ UNCHANGED district_idx
    /\ UNCHANGED <<pdf_idx, page_idx, pdf_records, all_records, summary_data, summary_row>>
    /\ UNCHANGED <<discoverVars, peerVars, roundVars, parseVars, retryVars, stats, tree, phase, processed_pdfs, loaded,
                   diskVars, pagelog, interrupted_at>>

IOError == \E step \in PersistenceSteps : WriteFails(step)

NextPersist ==
    \/ StartRun
    \/ NextDistrict
    \/ SkipProcessedPdf
    \/ OpenPdf
    \/ ProcessPage
    \/ FinishPdf
    \/ WriteMarkedTracker
    \/ FinishDistrict
    \/ SaveIntermediateTables
    \/ SaveIntermediateTracker
    \/ WriteIntermediateTracker
    \/ SaveFinalTables
    \/ SaveFinalTracker
    \/ WriteFinalTracker
    \/ IOError
    \/ Rerun

SpecPersist == Init /\ [][NextPersist]_vars

-----------------------------------------------------------------------------
(* SpecConvert: the conversion loop of a successful attempt, item by item   *)

Y2016 == <<"2", "0", "1", "6">>
Y2018 == <<"2", "0", "1", "8">>
Y1999 == <<"1", "9", "9", "9">>

\* what a dictionary may hold under a key: nothing (NoValue), null, a number,
\* a string
YearValues == {NoValue, JNull, EmptyStr, JStr(Y2016), JStr(Y2018), JNum(Y2018), JStr(Y1999)}
NotesValues == {NoValue, JNull, EmptyStr, JStr(<<"s">>), JStr(<<WS, "s">>), JNum(<<"1">>)}
SoftwareValues == {NoValue, JNull, JStr(<<"s">>), JNum(<<"1">>)}
CostValues == {NoValue, JNull, JNum(<<"1">>), JStr(<<"1">>)}

Field(key, val) == IF val = NoValue THEN <<>> ELSE << <<key, val>> >>

Dict(sw, cost, year, notes) ==
    JObj(Field(SoftwareKey, sw) \o Field(CostTotalKey, cost)
         \o Field(ContractStartYearKey, year) \o Field(MiscNotesKey, notes))

Dicts ==
    {Dict(sw, cost, year, notes) :
         sw \in SoftwareValues, cost \in CostValues, year \in YearValues,
         notes \in NotesValues}

PairedDicts ==
    {Dict(JStr(<<"s">>), NoValue, year, notes) :
         year \in {NoValue, JStr(Y2018)}, notes \in {NoValue, JStr(<<"s">>)}}

\* what a dictionary may hold under a key named like a field of the context
StampValues == {NoValue, JStr(<<"s">>), JNum(<<"1">>)}

\* dictionaries with district, round, source_file and page_number of their own
StampedDicts ==
    {JObj(Field(DistrictKey, d) \o Field(SoftwareKey, JStr(<<"s">>)) \o Field(RoundKey, r)
          \o Field(SourceFileKey, f) \o Field(PageNumberKey, p)) :
         d \in StampValues, r \in StampValues, f \in StampValues, p \in StampValues}

\* extracted_data: lists of none, one and two dictionaries
ExtractedLists ==
    {JArr(<<>>)} \cup {JArr(<<d>>) : d \in Dicts \cup StampedDicts}
    \cup {JArr(<<d, e>>) : d \in PairedDicts, e \in PairedDicts}

\* the pages the call is made for
PageIndexes == 0..1

InitConvert ==
    /\ presult \in ExtractedLists
    /\ content = <<>>
    /\ ppc = "returned"
    /\ responses = Always(TransportFailure)
    /\ image_ok = TRUE
    /\ call = [NewCall EXCEPT !.state = "converting"]
    /\ stats = ZeroStats
    /\ tree = <<>>
    /\ phase = "idle"
    /\ pc = "idle"
    /\ district_idx = 0
    /\ pdf_idx = 0
    /\ page_idx \in PageIndexes
    /\ pdf_records = <<>>
    /\ all_records = <<>>
    /\ summary_data = <<>>
    /\ summary_row = NewSummaryRow(0)
    /\ processed_pdfs = {}
    /\ loaded = {}
    /\ tracker_file = NoTrackerFile
    /\ main_csv = NoCsvFile
    /\ summary_csv = NoCsvFile
    /\ pagelog = {}
    /\ interrupted_at = 0
    /\ RoundIdle
    /\ PeerIdle
    /\ DiscoverIdle

\* lines 417-447: one pass of 'for item in extracted_data'
ConvertItem ==
    /\ call.state = "converting"
    /\ Len(call.records) < Len(presult.v)
    /\ call' = [call EXCEPT
                   !.records = Append(@, ToRecord(presult.v[Len(@) + 1], RetryCtx))]
    /\ UNCHANGED <<discoverVars, peerVars, roundVars, parseVars, responses, image_ok, stats, batchVars>>

\* lines 449-451: count the records and return them
ReturnRecords ==
    /\ call.state = "converting"
    /\ Len(call.records) = Len(presult.v)
    /\ call' = OnSuccess(call, stats, call.records).c
    /\ stats' = OnSuccess(call, stats, call.records).st
    /\ UNCHANGED <<discoverVars, peerVars, roundVars, parseVars, responses, image_ok, batchVars>>

NextConvert == ConvertItem \/ ReturnRecords

SpecConvert == InitConvert /\ [][NextConvert]_vars

-----------------------------------------------------------------------------
(* Properties of parse_json_with_recovery, checked under SpecParse *)

ParseEnded == ppc \in {"returned", "raised"}

NoStrategySucceeds(s) ==
    /\ ~Strategy1(s).ok
    /\ ~Strategy2(s).ok
    /\ ~Strategy3(s).ok
    /\ ~Strategy4(s).ok

-----------------------------------------------------------------------------
(* Properties of analyze_page_with_gpt, checked under SpecRetry *)

SuccessAt(i) == AttemptException(responses[i]) = "none"

SomeSuccess == \E i \in 1..max_retries : SuccessAt(i)

\* the index of the first successful attempt, or max_retries
AttemptsNeeded ==
    IF SomeSuccess
    THEN CHOOSE i \in 1..max_retries : SuccessAt(i) /\ \A j \in 1..(i - 1) : ~SuccessAt(j)
    ELSE max_retries

CallEnded == image_ok /\ call.state \notin {"idle", "running"}

RecordsOfAttempt(i) ==
    ToRecords(parse_json_with_recovery(CleanResponse(responses[i].text)).v, RetryCtx)

\* C7: one page costs exactly k model calls, k the index of the first
\* successful attempt or 3 when none succeeds; never more than 3 calls; a page
\* is reported failed only after 3 attempts; the first success ends the
\* sequence with its records.
C7_CallsUpToFirstSuccess ==
    /\ stats.api_calls_made <= max_retries
    /\ (image_ok /\ call.state = "running") => stats.api_calls_made = call.attempt
    /\ CallEnded =>
        /\ stats.api_calls_made = AttemptsNeeded
        /\ stats.errors_encountered > 0 => stats.api_calls_made = max_retries
        /\ SomeSuccess => /\ call.records = RecordsOfAttempt(AttemptsNeeded)
                          /\ stats.errors_encountered = 0

\* failure, failure, success: the third attempt's records after 3 calls
C7_Witness ==
    /\ CallEnded
    /\ ~SuccessAt(1) /\ ~SuccessAt(2) /\ SuccessAt(3)
    /\ stats.api_calls_made = 3
    /\ call.records # <<>>

\* C8: when all 3 attempts fail, whatever the classes of the failures,
\* analyze_page_with_gpt returns an empty list, errors_encountered grows by
\* exactly one, and no exception leaves the function.
C8_ExhaustedRetriesReturnEmpty ==
    /\ call.state # "raised"
    /\ (CallEnded /\ ~SomeSuccess) =>
        /\ call.state = "returned"
        /\ call.records = <<>>
        /\ stats.errors_encountered = 1

\* three failed attempts, one of each class
C8_Witness ==
    /\ CallEnded
    /\ ~SomeSuccess
    /\ {AttemptException(responses[i]) : i \in 1..max_retries}
           = {"RequestException", "JSONDecodeError", "Exception"}
    /\ call.records = <<>>

\* the waits the docstring promises before the second and the third attempt
PromisedWaits == <<InitialRetryDelay, Backoff(InitialRetryDelay)>>

\* C9, as stated: after every failed non-final attempt, of whichever class,
\* the function waits the current delay and multiplies it by 1.5: 2 seconds
\* before the second attempt, 3 seconds before the third.
C9_SameBackoffForEveryClass ==
    (image_ok /\ call.state # "idle") => call.sleeps = SubSeq(PromisedWaits, 1, call.attempt)

-----------------------------------------------------------------------------
(* What one uninterrupted run writes, computed from the tree alone *)

\* the records process_pdf returns for PDF k of district d, from page g on
RECURSIVE PageRecordsFrom(_, _, _)
PageRecordsFrom(d, k, g) ==
    IF g >= Len(tree[d].pdfs[k].pages) THEN <<>>
    ELSE analyze_page_with_gpt(tree[d].pdfs[k].pages[g + 1].image_ok,
                               tree[d].pdfs[k].pages[g + 1].responses, ZeroStats,
                               PageCtx(tree[d].name, tree[d].pdfs[k].round,
                                       tree[d].pdfs[k].name, g)).c.records
         \o PageRecordsFrom(d, k, g + 1)

\* the records of district d, from PDF k on
RECURSIVE DistrictRecordsFrom(_, _)
DistrictRecordsFrom(d, k) ==
    IF k > Len(tree[d].pdfs) THEN <<>>
    ELSE PageRecordsFrom(d, k, 0) \o DistrictRecordsFrom(d, k + 1)

\* the main table after the loop of line 776 from district d on and the final
\* save, all_records and the file being acc and file before district d
RECURSIVE UninterruptedTable(_, _, _)
UninterruptedTable(d, acc, file) ==
    IF d > Len(tree) THEN write_detailed_csv(file, acc, TRUE)
    ELSE UninterruptedTable(d + 1, acc \o DistrictRecordsFrom(d, 1),
             IF d % CheckpointEvery = 0
             THEN write_detailed_csv(file, acc \o DistrictRecordsFrom(d, 1), TRUE)
             ELSE file)

-----------------------------------------------------------------------------
(* Properties of the batch, checked under Spec *)

Count(seq, x) == Cardinality({i \in DOMAIN seq : seq[i] = x})

Range(seq) == {seq[i] : i \in DOMAIN seq}

IsPrefix(a, b) == Len(a) <= Len(b) /\ SubSeq(b, 1, Len(a)) = a

\* the same rows with the same multiplicities
SameRows(a, b) ==
    /\ Len(a) = Len(b)
    /\ \A x \in Range(a) : Count(a, x) = Count(b, x)

\* the PDFs of the tree, as pairs of a district index and a PDF index
PdfsOfTree == UNION {{<<d, k>> : k \in 1..Len(tree[d].pdfs)} : d \in 1..Len(tree)}

IdOf(p) ==
    get_pdf_identifier(tree[p[1]].pdfs[p[2]].name, tree[p[1]].name, tree[p[1]].pdfs[p[2]].round)

PagesOf(p) == tree[p[1]].pdfs[p[2]].pages

SentInRerun(id) == \E e \in pagelog : e.run = "rerun" /\ e.id = id /\ e.sent

RerunEndedAfterInterrupt == pc = "done" /\ phase = "rerun" /\ interrupted_at > 0

\* C1, as stated: a run interrupted and then rerun from the tracker left on
\* disk sends no page of an already-marked PDF to the model, and ends with a
\* main table that has the rows of one uninterrupted run, with the same
\* multiplicities.
C1_RerunEqualsUninterruptedRun ==
    /\ phase = "rerun" => \A id \in loaded : ~SentInRerun(id)
    /\ RerunEndedAfterInterrupt =>
           SameRows(main_csv.rows, UninterruptedTable(1, <<>>, NoCsvFile).rows)

\* C2, as stated: at the end of one uninterrupted run every record the
\* Extraction Client returned is exactly once in the main table.
C2_EachRecordOnce ==
    (pc = "done" /\ phase = "first") =>
        \A i \in 1..Len(all_records) : Count(main_csv.rows, writerow(to_dict(all_records[i]))) = 1

\* every page of the PDF has been iterated: analyzed, failed after its last
\* retry, or skipped because it could not be rendered
FullyIterated(p) ==
    /\ tree[p[1]].pdfs[p[2]].openable
    /\ \A g \in 0..(Len(PagesOf(p)) - 1) : \E e \in pagelog : e.id = IdOf(p) /\ e.page = g

\* C3: every identifier of the in-memory processed set belongs to a PDF whose
\* pages have all been iterated; a PDF left part-way is never in the set.
C3_MarkedOnlyWhenComplete ==
    \A p \in PdfsOfTree : IdOf(p) \in processed_pdfs => FullyIterated(p)

\* a PDF of two pages is in the set while the run goes on
C3_Witness ==
    /\ Running
    /\ \E p \in PdfsOfTree : Len(PagesOf(p)) = 2 /\ IdOf(p) \in processed_pdfs

\* C4: process_pdf on a PDF whose identifier is in the tracker set makes no
\* model call, returns no records, and leaves the set and the counters alone.
C4_ProcessedPdfIsSkipped ==
    [][(HasPdf /\ CurId \in processed_pdfs /\ pc' # "exited") =>
           /\ pagelog' = pagelog
           /\ all_records' = all_records
           /\ processed_pdfs' = processed_pdfs
           /\ tracker_file' = tracker_file
           /\ stats' = stats
           /\ pdf_idx' = pdf_idx + 1]_vars

\* the rerun has passed over a PDF the tracker file named, sending nothing
C4_Witness ==
    /\ phase = "rerun"
    /\ pc = "pdf"
    /\ pdf_idx = 2
    /\ IdOf(<<district_idx, 1>>) \in loaded
    /\ PagesOf(<<district_idx, 1>>) # <<>>
    /\ ~\E e \in pagelog : e.run = "rerun" /\ e.id = IdOf(<<district_idx, 1>>)

\* C5, as stated: after an interrupt the program has checkpointed what had
\* accumulated: the records in memory are in the main table and the tracker
\* set is on disk.
C5_InterruptCheckpoints ==
    pc = "exited" =>
        /\ \A i \in 1..Len(all_records) : Count(main_csv.rows, writerow(to_dict(all_records[i]))) >= 1
        /\ load_processed_pdfs(tracker_file) = processed_pdfs

\* the last district the interrupted run had begun
LastHandled == IF interrupted_at > Len(tree) THEN Len(tree) ELSE interrupted_at

\* a page of the rerun that the first run had iterated too
Reprocessed(e) == e.run = "rerun" /\ \E f \in pagelog : f.run = "first" /\ f.id = e.id

RepeatIsBounded ==
    interrupted_at > 0 =>
        \A e \in pagelog : Reprocessed(e) => e.id[1] > LastHandled - CheckpointEvery

RowsKept ==
    /\ IsPrefix(main_csv.rows, main_csv'.rows)
    /\ IsPrefix(summary_csv.rows, summary_csv'.rows)

\* C6, as stated: a rerun after an interrupt iterates again only PDFs of the
\* last 5 districts the interrupted run had handled, and no step removes a
\* row an earlier save wrote to the main tables.
C6_BoundedRepeatNoRowLost == [][RowsKept /\ RepeatIsBounded']_vars

\* What holds of a rerun that found a tracker document it could load
\* identifiers from: the repeat is bounded by the last 5 districts
RepeatIsBoundedAfterCompleteSave ==
    (interrupted_at > 0 /\ loaded # {}) =>
        \A e \in pagelog : Reprocessed(e) => e.id[1] > LastHandled - CheckpointEvery

\* a rerun, after an interrupt past the first checkpoint, has iterated a PDF
\* again and ended with the checkpoint's rows still in the table
C6_Witness ==
    /\ RerunEndedAfterInterrupt
    /\ interrupted_at > CheckpointEvery
    /\ \E e \in pagelog : Reprocessed(e)
    /\ Len(main_csv.rows) > CheckpointEvery

-----------------------------------------------------------------------------
(* The parser's failure as the retry loop sees it, checked under SpecRetry *)

\* the answer of attempt i is text on which every recovery strategy fails
Unrecoverable(i) ==
    /\ responses[i].kind = "content"
    /\ NoStrategySucceeds(CleanResponse(responses[i].text))

-----------------------------------------------------------------------------
(* The order of the strategies, checked under SpecParse *)

\* the value of the first strategy that succeeds, in the order direct parse,
\* syntactic repair, array extraction, object salvage
FirstInOrder(s) ==
    IF Strategy1(s).ok THEN Strategy1(s).v
    ELSE IF Strategy2(s).ok THEN Strategy2(s).v
    ELSE IF Strategy3(s).ok THEN Strategy3(s).v
    ELSE Strategy4(s).v

\* a strategy is reached only after the ones before it have failed
EarlierStrategiesFailed ==
    /\ ppc \in {"strategy2", "strategy3", "strategy4", "strategy5"} => ~Strategy1(content).ok
    /\ ppc \in {"strategy3", "strategy4", "strategy5"} => ~Strategy2(content).ok
    /\ ppc \in {"strategy4", "strategy5"} => ~Strategy3(content).ok
    /\ ppc = "strategy5" => ~Strategy4(content).ok

FirstSuccessReturned ==
    (ParseEnded /\ ~NoStrategySucceeds(content)) =>
        /\ ppc = "returned"
        /\ presult = FirstInOrder(content)
        /\ parse_json_with_recovery(content) = [raised |-> FALSE, v |-> presult]

\* C12: the strategies run in the order direct parse, syntactic repair, array
\* extraction, object salvage; the result is that of the first one that
\* succeeds, and nothing changes it afterwards.
C12_FirstStrategyInOrderWins ==
    /\ [](EarlierStrategiesFailed /\ FirstSuccessReturned)
    /\ [][ppc = "returned" => (ppc' = "returned" /\ presult' = presult)]_vars

\* the direct parse has decided although object salvage would have answered
\* with another value
C12_Witness ==
    /\ ppc = "returned"
    /\ Strategy1(content).ok
    /\ Strategy4(content).ok
    /\ Strategy4(content).v # presult

-----------------------------------------------------------------------------
(* Round trips through parse_json_with_recovery, checked under SpecParse *)

\* C13, as stated: a list of record dictionaries, serialized as a JSON array
\* with one trailing comma before the closing bracket, is recovered as a list
\* equal to the original, also where a string value holds a comma followed
\* by a closing bracket or brace.
C13_TrailingCommaRoundTrip ==
    \A l \in RecordLists :
        (ParseEnded /\ content = InjectTrailingComma(json_dumps(l))) =>
            (ppc = "returned" /\ presult = ListValue(l))

\* C14, as stated: from an answer that is a fenced code block or prose
\* holding one JSON array, whatever else the prose holds (square brackets
\* too), the cleaning step and parse_json_with_recovery recover exactly that
\* array.
C14_EmbeddedArrayRecovered ==
    \A e \in EmbeddedArrays :
        (ParseEnded /\ content = CleanResponse(e.raw)) =>
            (ppc = "returned" /\ presult = json_loads(e.array).v)

-----------------------------------------------------------------------------
(* Properties of the Processed-Set Tracker, checked under SpecTracker *)

\* the identifiers the persisted document gives back to a process that loads
\* it now
Persisted == load_processed_pdfs(tracker_file)

\* C15: once mark_pdf_as_processed has been called with an identifier,
\* is_pdf_already_processed answers true for it, and no mark and no save takes
\* an identifier out of the set: within one process only clear_tracking_file
\* removes identifiers.
C15_MarkedStaysProcessed ==
    [][/\ \A id \in TrackerIds :
              MarkOp(id) =>
                  is_pdf_already_processed(processed_pdfs', id[3], id[1], id[2])
       /\ (MarkSome \/ SaveOp \/ WriteDocument) =>
              processed_pdfs \subseteq processed_pdfs']_vars

\* a process that began with nothing has marked past a save and still knows
\* all it marked
C15_Witness ==
    /\ pc = "ready"
    /\ loaded = {}
    /\ Cardinality(Persisted) = TrackerSaveEvery
    /\ Cardinality(processed_pdfs) = TrackerSaveEvery + 1
    /\ Persisted \subseteq processed_pdfs

ClearRemovesTheDocument ==
    /\ pc = "cleared" => (~tracker_file.exists /\ load_processed_pdfs(tracker_file) = {})
    /\ [][(ClearOp /\ tracker_file.exists) => processed_pdfs' = {}]_vars

\* the identifiers a crash now would lose: in memory and not in the persisted
\* document
Unsaved == processed_pdfs \ Persisted

UnsavedBoundReached ==
    BetweenOperations /\ Cardinality(Unsaved) = TrackerSaveEvery - 1

\* a document of the shape save_processed_pdfs writes
IsTrackerDocument(file) == file.exists /\ file.doc.shape = "document"

\* C19, as stated: when the persisted document is missing, is not parseable
\* JSON, or is JSON of an unexpected shape, the load of __init__ returns the
\* empty set and raises nothing.
C19_LoadFallsBackToEmpty ==
    (pc = "loaded" /\ ~IsTrackerDocument(tracker_file)) =>
        /\ processed_pdfs = {}
        /\ LoadAttempt(tracker_file).exc \in
               {"none", "JSONDecodeError", "AttributeError", "TypeError"}

\* What load_processed_pdfs does establish: whatever the document, the
\* exception of the try block, if any, is one the except clause catches, and
\* then the set is empty
LoadNeverRaises ==
    pc = "loaded" =>
        /\ LoadAttempt(tracker_file).exc \in
               {"none", "JSONDecodeError", "AttributeError", "TypeError"}
        /\ LoadAttempt(tracker_file).exc # "none" => processed_pdfs = {}

\* a missing document or one save_processed_pdfs wrote to its end
IsCompleteOrMissing(file) == ~file.exists \/ file.doc.shape = "document"

\* C20, as stated: when the process dies at any point during
\* save_processed_pdfs, the persisted document is a complete one (the
\* previous or the new one), never an empty or partial one, and the load of
\* the next process does not fall back to the empty set because of it.
C20_SaveIsAtomic ==
    [][(pc = "saving" /\ Crash) =>
           /\ IsCompleteOrMissing(tracker_file')
           /\ LoadAttempt(tracker_file').exc = "none"]_vars

\* a process that loaded a complete document of five identifiers has died
\* inside a save: the document is partial and the next load gives the empty
\* set
InterruptedSaveLosesTheDocument ==
    /\ pc = "crashed"
    /\ Cardinality(loaded) = TrackerSaveEvery
    /\ loaded \subseteq processed_pdfs
    /\ tracker_file.doc = PartialDocument
    /\ load_processed_pdfs(tracker_file) = {}

-----------------------------------------------------------------------------
(* Pages that cannot be rendered, checked under Spec *)

\* the loop of process_pdf is at a page for which extract_page_content
\* returns empty image bytes
AtUnrenderedPage ==
    /\ pc = "page"
    /\ page_idx < Len(CurPdf.pages)
    /\ ~CurPdf.pages[page_idx + 1].image_ok

\* no model call is made, no record is added, and the loop is at the next
\* page of the same PDF
SkippedToNextPage ==
    /\ stats'.api_calls_made = stats.api_calls_made
    /\ pdf_records' = pdf_records
    /\ pc' = "page"
    /\ pdf_idx' = pdf_idx
    /\ page_idx' = page_idx + 1

\* C21, as stated: a page whose rendering fails is skipped with no model
\* call and no retry, errors_encountered is incremented, and processing
\* continues with the next page of the same PDF.
C21_UnrenderedPageSkipped ==
    [][(AtUnrenderedPage /\ pc' # "exited") =>
           /\ SkippedToNextPage
           /\ stats'.errors_encountered = stats.errors_encountered + 1]_vars

\* What process_pdf does for such a page: it is skipped as described, counted
\* as an analyzed page, and no counter of errors moves
UnrenderedPageCountedAsAnalyzed ==
    [][(AtUnrenderedPage /\ pc' # "exited") =>
           /\ SkippedToNextPage
           /\ stats'.errors_encountered = stats.errors_encountered
           /\ stats'.pages_analyzed = stats.pages_analyzed + 1]_vars

-----------------------------------------------------------------------------
(* Persistence errors, checked under SpecPersist *)

\* the run goes on, with what it holds in memory
RunContinues ==
    /\ pc' \in {"checkpoint_tracker", "district", "final_tracker", "done"}
    /\ UNCHANGED <<all_records, summary_data, processed_pdfs>>

\* C22, as stated: a tracker save or a CSV write (main table or snapshot)
\* that fails with an I/O error during a checkpoint is not fatal:
\* process_all_districts continues with its in-memory state.
C22_PersistenceErrorNeverFatal ==
    [][\A step \in PersistenceSteps : WriteFails(step) => RunContinues]_vars

\* What holds: a failed tracker save is not fatal
TrackerSaveErrorNotFatal ==
    [][WriteFails("tracker") => RunContinues]_vars

\* a run has ended in main's except clause after a failed CSV write, with
\* records in memory that no table holds
FailedWriteEndsTheRun ==
    /\ pc = "failed"
    /\ all_records # <<>>
    /\ ~main_csv.exists

-----------------------------------------------------------------------------
(* One run from nothing over one two-page PDF, checked under Spec *)

\* one district, one round folder, one PDF of two pages: the first gives one
\* record, the second an empty array
EndToEndTree == <<[name |-> 1, pdfs |-> TwoPageDistrict]>>

EndToEndRunEnded == tree = EndToEndTree /\ phase = "first" /\ pc = "done"

\* C23: such a run, begun with no tracker and no output, ends with exactly one
\* row in the main detailed table, whose Round is the round token, whose
\* Source_File is the PDF's name and whose Page_Number is "1", and with a
\* persisted tracker holding exactly the identifier of that district, round
\* and file name.
C23_EndToEndOneRowOneIdentifier ==
    EndToEndRunEnded =>
        /\ Len(main_csv.rows) = 1
        /\ main_csv.rows[1].Round = "1"
        /\ main_csv.rows[1].Source_File = "a"
        /\ main_csv.rows[1].Page_Number = "1"
        /\ main_csv.rows[1].District = 1
        /\ tracker_file.exists
        /\ tracker_file.doc = DocumentOf(<<get_pdf_identifier("a", 1, "1")>>)
        /\ load_processed_pdfs(tracker_file) = {get_pdf_identifier("a", 1, "1")}

\* the run has ended, with its table on disk
C23_Witness ==
    /\ EndToEndRunEnded
    /\ main_csv.exists
    /\ stats.pages_analyzed = 2
    /\ stats.api_calls_made = 2

-----------------------------------------------------------------------------
(* Checkpoints, checked under Spec *)

\* the last district of the loop has just been finished
AtDistrictEnd == pc = "pdf" /\ pdf_idx > Len(CurDistrict.pdfs)

\* the loop over the districts has just ended
AtLoopEnd == pc = "district" /\ district_idx > Len(tree)

\* a checkpoint has just been completed: the intermediate one of a fifth
\* district, or the final one
JustCheckpointed ==
    \/ pc = "done"
    \/ /\ pc = "district"
       /\ stats.districts_processed > 0
       /\ stats.districts_processed % CheckpointEvery = 0

AllRecordsInMainTable ==
    \A i \in 1..Len(all_records) :
        \E j \in 1..Len(main_csv.rows) : main_csv.rows[j] = writerow(to_dict(all_records[i]))

\* C24: a checkpoint is begun after every fifth finished district and, always,
\* once more when the loop over the districts has ended; right after a
\* checkpoint the persisted tracker document equals the in-memory set and
\* every record accumulated so far in the run is in the main detailed table.
C24_CheckpointEveryFifthAndAtEnd ==
    /\ [](JustCheckpointed =>
              (load_processed_pdfs(tracker_file) = processed_pdfs /\ AllRecordsInMainTable))
    /\ [][/\ (AtDistrictEnd /\ pc' # "exited") =>
                 (pc' = "checkpoint_csv" <=>
                      (stats.districts_processed + 1) % CheckpointEvery = 0)
          /\ (AtLoopEnd /\ pc' # "exited") => pc' = "final_csv"
          /\ (pc \in {"checkpoint_csv", "final_csv"} /\ pc' # "exited") =>
                 pc' \in {"checkpoint_tracker", "final_tracker"}
          /\ (pc \in {"checkpoint_tracker", "final_tracker"} /\ pc' # "exited") =>
                 pc' \in {"checkpoint_writing", "final_writing"}]_vars

\* a run of more than five districts has ended: it made the intermediate
\* checkpoint and the final one
C24_Witness ==
    /\ pc = "done"
    /\ phase = "first"
    /\ stats.districts_processed > CheckpointEvery
    /\ Len(main_csv.rows) > Len(all_records)
    /\ Cardinality(processed_pdfs) > CheckpointEvery

-----------------------------------------------------------------------------
(* The conversion of dictionaries to records, checked under SpecConvert *)

ConversionEnded == call.state = "returned" /\ presult \in ExtractedLists

\* the year the dictionary gives, as the text the validation looks up
YearText(pairs) == PyStr(DictGet(pairs, ContractStartYearKey, EmptyStr)).v

\* the year has an expected round and it is not the folder's
YearMismatch(pairs, round_num) ==
    /\ YearText(pairs) # <<>>
    /\ year_to_round(YearText(pairs)) # ""
    /\ year_to_round(YearText(pairs)) # round_num

\* the notes the dictionary holds, as text: nothing where it holds none
NotesText(pairs) ==
    IF DictGet(pairs, MiscNotesKey, JNull).t = "null" THEN <<>>
    ELSE PyStr(DictGet(pairs, MiscNotesKey, JNull)).v

\* new is old with the mismatch note appended, after a space where old is
\* not empty
NoteAppended(old, new) ==
    new = IF old = <<>> THEN MismatchNote ELSE old \o <<WS>> \o MismatchNote

\* the record of the dictionary is the record there would be without the
\* validation, but for the note
OnlyTheNoteDiffers(pairs, record) ==
    IF YearMismatch(pairs, RetryCtx.round)
    THEN /\ record.misc_notes.t = "str"
         /\ NoteAppended(NotesText(pairs), record.misc_notes.v)
         /\ [record EXCEPT !.misc_notes = EmptyStr]
                = [SoftwareRecord(pairs, RetryCtx) EXCEPT !.misc_notes = EmptyStr]
    ELSE record = SoftwareRecord(pairs, RetryCtx)

\* C25, as stated: a successful attempt returns one record per recovered
\* dictionary, in order; where the dictionary's contract_start_year has an
\* expected round other than the folder's, the record differs only by the
\* mismatch note appended to its notes; where there is no year, or no
\* expected round for it, the notes are unchanged.
C25_SoftValidationOnlyAppendsNote ==
    ConversionEnded =>
        /\ Len(call.records) = Len(presult.v)
        /\ call.records = ToRecords(presult, RetryCtx)
        /\ \A i \in 1..Len(presult.v) :
               OnlyTheNoteDiffers(presult.v[i].v, call.records[i])

\* the notes are a string with no whitespace around it, or are absent
PlainNotes(pairs) ==
    /\ DictGet(pairs, MiscNotesKey, EmptyStr).t = "str"
    /\ Strip(DictGet(pairs, MiscNotesKey, EmptyStr).v) = DictGet(pairs, MiscNotesKey, EmptyStr).v

\* What holds: no dictionary is dropped, and for notes that are plain strings
\* only the note differs
NoDictionaryDropped ==
    ConversionEnded =>
        /\ Len(call.records) = Len(presult.v)
        /\ call.records = ToRecords(presult, RetryCtx)
        /\ \A i \in 1..Len(presult.v) :
               PlainNotes(presult.v[i].v) =>
                   OnlyTheNoteDiffers(presult.v[i].v, call.records[i])

\* the fields of a record that are filled from the dictionary
DictionaryFields == {"software", "cost_total", "contract_start_year", "misc_notes"}

\* the dictionary key a field is filled from
KeyOf(f) ==
    CASE f = "software" -> SoftwareKey
      [] f = "cost_total" -> CostTotalKey
      [] f = "contract_start_year" -> ContractStartYearKey
      [] OTHER -> MiscNotesKey

\* C26, as stated: every field of every record analyze returns is a string,
\* and the empty string where the dictionary has no value for it (key absent
\* or null): never null, whatever the dictionary holds under the key.
C26_EveryFieldIsAString ==
    ConversionEnded =>
        \A i \in 1..Len(presult.v) :
            \A f \in DictionaryFields :
                /\ call.records[i][f].t = "str"
                /\ (f # "misc_notes"
                    /\ DictGet(presult.v[i].v, KeyOf(f), JNull).t = "null") =>
                       call.records[i][f] = EmptyStr

\* What holds: a field is the empty string where the key is absent, a string
\* where the dictionary holds a string, and, for the fields the code wraps in
\* str(), a string whatever the dictionary holds
AbsentAndWrappedFieldsAreStrings ==
    ConversionEnded =>
        \A i \in 1..Len(presult.v) :
            /\ \A f \in {"cost_total", "contract_start_year"} :
                   call.records[i][f].t = "str"
            /\ \A f \in DictionaryFields \ {"misc_notes"} :
                   DictGet(presult.v[i].v, KeyOf(f), NoValue) = NoValue =>
                       call.records[i][f] = EmptyStr

\* ---------------------------------------------------------------------------
\* Round folders: normalize_round_name and get_round_folders
\* ---------------------------------------------------------------------------

\* the result of dict.get for a key the table does not hold (None)
NoRound == "None"

RoundDigits == {"1", "2", "3", "4", "5"}

\* str.lower() of one character, over the letters folder names are written with
LowerChar(c) ==
    CASE c = "R" -> "r"
      [] c = "O" -> "o"
      [] c = "U" -> "u"
      [] c = "N" -> "n"
      [] c = "D" -> "d"
      [] c = "F" -> "f"
      [] c = "Y" -> "y"
      [] OTHER -> c

Lower(s) == [i \in 1..Len(s) |-> LowerChar(s[i])]

\* the keys of round_patterns for one round digit: 'r1', 'round 1', 'round1'
RoundAliases(d) ==
    {<<"r", d>>, <<"r", "o", "u", "n", "d", WS, d>>, <<"r", "o", "u", "n", "d", d>>}

Fy1617 == <<"f", "y", WS, "1", "6", "-", "1", "7">>
Fy1718 == <<"f", "y", WS, "1", "7", "-", "1", "8">>
Fy1819 == <<"f", "y", WS, "1", "8", "-", "1", "9">>

Aliases == UNION {RoundAliases(d) : d \in RoundDigits} \cup {Fy1617, Fy1718, Fy1819}

\* self.round_patterns.get(key)
round_patterns(key) ==
    CASE key = Fy1617 -> "1"
      [] key = Fy1718 -> "2"
      [] key = Fy1819 -> "3"
      [] \E d \in RoundDigits : key \in RoundAliases(d) ->
             CHOOSE d \in RoundDigits : key \in RoundAliases(d)
      [] OTHER -> NoRound

\* folder_lower = folder_name.lower().strip()
\* return self.round_patterns.get(folder_lower)
normalize_round_name(folder_name) == round_patterns(Strip(Lower(folder_name)))

\* the names of the subfolders a district may hold
FolderNames ==
    { <<"r", "1">>,
      <<"R", "1">>,
      <<"r", "o", "u", "n", "d", WS, "1">>,
      <<"R", "o", "u", "n", "d", WS, "1">>,
      <<"R", "O", "U", "N", "D", WS, "1">>,
      <<"R", "o", "u", "n", "d", "1">>,
      <<WS, "R", "1", WS>>,
      <<"R", "o", "u", "n", "d", WS, WS, "1">>,
      <<"F", "Y", WS, "1", "6", "-", "1", "7">>,
      <<"R", "2">>,
      <<"R", "o", "u", "n", "d", WS, "2">>,
      <<"R", "o", "u", "n", "d", WS, "6">>,
      <<"d", "o", "c", "s">> }

\* the most subfolders a district holds
MaxFolders == 2

\* district_path.iterdir(): the subfolders in some order, each once
Listings ==
    {l \in UNION {[1..n -> FolderNames] : n \in 0..MaxFolders} :
        \A i, j \in 1..Len(l) : i # j => l[i] # l[j]}

\* the folder round_folders holds for a round
FolderOf(folders, round_num) == CHOOSE p \in folders : p[1] = round_num

\* one turn of the loop of get_round_folders over a directory
VisitItem(folders, new_name) ==
    LET round_num == normalize_round_name(new_name)
    IN  IF round_num = NoRound
        THEN folders
        ELSE IF \E p \in folders : p[1] = round_num
             THEN LET current_name == FolderOf(folders, round_num)[2]
                  IN  IF Len(new_name) < Len(current_name) \/ Head(new_name) = "R"
                      THEN (folders \ {FolderOf(folders, round_num)})
                               \cup {<<round_num, new_name>>}
                      ELSE folders
             ELSE folders \cup {<<round_num, new_name>>}

RECURSIVE ScanFirst(_, _)
ScanFirst(l, k) == IF k = 0 THEN {} ELSE VisitItem(ScanFirst(l, k - 1), l[k])

get_round_folders(l) == ScanFirst(l, Len(l))

InitRounds ==
    /\ listing \in Listings
    /\ scanned = 0
    /\ round_folders = {}
    /\ ParseIdle
    /\ RetryIdle
    /\ stats = ZeroStats
    /\ BatchIdle
    /\ PeerIdle
    /\ DiscoverIdle

VisitFolder ==
    /\ scanned < Len(listing)
    /\ round_folders' = VisitItem(round_folders, listing[scanned + 1])
    /\ scanned' = scanned + 1
    /\ UNCHANGED <<listing, discoverVars, peerVars, parseVars, retryVars, stats, batchVars>>

NextRounds == VisitFolder

SpecRounds == InitRounds /\ [][NextRounds]_vars

\* ---------------------------------------------------------------------------
\* C27: normalize_round_name
\* ---------------------------------------------------------------------------

RECURSIVE WithoutWhitespace(_)
WithoutWhitespace(s) ==
    IF s = <<>> THEN <<>>
    ELSE IF Head(s) = WS THEN WithoutWhitespace(Tail(s))
         ELSE <<Head(s)>> \o WithoutWhitespace(Tail(s))

\* two names that differ in letter case and in whitespace only
SameButCaseAndWhitespace(a, b) ==
    WithoutWhitespace(Lower(a)) = WithoutWhitespace(Lower(b))

RoundsFound == {p[1] : p \in round_folders}

\* C27, as stated: normalize maps every name that is an alias of the table up
\* to letter case and whitespace (extra whitespace between "round" and the
\* digit included) to the round of that alias, and maps every other name to
\* none, so that the rounds found in a directory are those of the aliases the
\* visited names spell.
C27_NormalizeIgnoresCaseAndWhitespace ==
    /\ \A i \in 1..scanned : \A a \in Aliases :
           SameButCaseAndWhitespace(listing[i], a) =>
               /\ normalize_round_name(listing[i]) = round_patterns(a)
               /\ round_patterns(a) \in RoundsFound
    /\ \A r \in RoundsFound :
           \E i \in 1..scanned : \E a \in Aliases :
               SameButCaseAndWhitespace(listing[i], a) /\ round_patterns(a) = r

\* What holds: letter case and whitespace around the name are ignored, and a
\* name that is no alias after lowering and stripping gives no round
NormalizeIgnoresCaseAndOuterWhitespace ==
    /\ \A i \in 1..scanned : \A a \in Aliases :
           (Lower(listing[i]) = a \/ Strip(listing[i]) = a
               \/ Strip(Lower(listing[i])) = a) =>
               /\ normalize_round_name(listing[i]) = round_patterns(a)
               /\ round_patterns(a) \in RoundsFound
    /\ \A i \in 1..scanned :
           Strip(Lower(listing[i])) \notin Aliases =>
               normalize_round_name(listing[i]) = NoRound
    /\ \A r \in RoundsFound :
           \E i \in 1..scanned : normalize_round_name(listing[i]) = r

\* a name with two spaces between "Round" and the digit has been visited
InnerWhitespaceVisited ==
    \E i \in 1..scanned : listing[i] = <<"R", "o", "u", "n", "d", WS, WS, "1">>

\* ---------------------------------------------------------------------------
\* C28: the tie-break of get_round_folders
\* ---------------------------------------------------------------------------

ScanEnded == scanned = Len(listing)

\* the same subfolders, enumerated in every possible order
Reorderings(l) ==
    {[i \in 1..Len(l) |-> l[f[i]]] : f \in Permutations(1..Len(l))}

\* the subfolders of the listing that normalize to one round
Candidates(l, round_num) ==
    {l[i] : i \in {j \in 1..Len(l) : normalize_round_name(l[j]) = round_num}}

\* C28, as stated: when the scan of a directory has ended, the folder chosen
\* for each round is the one every other enumeration order of the same
\* subfolders chooses, and it is a folder whose name is shorter than the
\* other candidates of its round or starts with "R".
C28_TieBreakIsDeterministic ==
    ScanEnded =>
        /\ \A l \in Reorderings(listing) : get_round_folders(l) = round_folders
        /\ \A p \in round_folders :
               \/ Head(p[2]) = "R"
               \/ \A other \in Candidates(listing, p[1]) : Len(p[2]) <= Len(other)

\* What holds in every order: the rounds found are the same, and the folder
\* chosen for a round is one of the subfolders that normalize to it
RoundsFoundInEveryOrder ==
    ScanEnded =>
        /\ \A l \in Reorderings(listing) :
               {p[1] : p \in get_round_folders(l)} = RoundsFound
        /\ \A p \in round_folders : p[2] \in Candidates(listing, p[1])
        /\ \A p, q \in round_folders : p[1] = q[1] => p = q

\* two subfolders of one round have been scanned
TwoFoldersOfOneRound ==
    /\ ScanEnded
    /\ \E r \in RoundsFound : Cardinality(Candidates(listing, r)) >= 2

\* ---------------------------------------------------------------------------
\* Same-named files in one round
\* ---------------------------------------------------------------------------

\* The PDFs rglob finds under one round folder, in processing order. Two files
\* of one name under one round folder lie in different subfolders of it; the
\* identifier is built from pdf_path.name and holds no part of the subfolder.
SameNameShapes ==
    { <<Pdf("a", "1", <<GoodPage>>), Pdf("a", "1", <<GoodPage, EmptyPage>>)>>,
      <<BrokenPdf("a", "1"), Pdf("a", "1", <<GoodPage>>)>>,
      <<Pdf("a", "1", <<FailedPage>>), Pdf("a", "1", <<GoodPage, EmptyPage>>)>>,
      <<Pdf("a", "1", <<GoodPage>>), Pdf("b", "1", <<GoodPage>>), Pdf("a", "2", <<EmptyPage>>)>> }

SameNameTrees ==
    UNION { { [i \in 1..n |-> [name |-> i,
                               pdfs |-> IF i = k THEN shape ELSE PlainDistrict]]
              : k \in 1..n, shape \in SameNameShapes }
            : n \in 1..MaxDistricts }

InitSameName ==
    /\ tree \in SameNameTrees
    /\ phase = "first"
    /\ pc = "start"
    /\ district_idx = 0
    /\ pdf_idx = 0
    /\ page_idx = 0
    /\ pdf_records = <<>>
    /\ all_records = <<>>
    /\ summary_data = <<>>
    /\ summary_row = NewSummaryRow(0)
    /\ processed_pdfs = load_processed_pdfs(NoTrackerFile)
    /\ loaded = load_processed_pdfs(NoTrackerFile)
    /\ tracker_file = NoTrackerFile
    /\ main_csv = NoCsvFile
    /\ summary_csv = NoCsvFile
    /\ pagelog = {}
    /\ interrupted_at = 0
    /\ stats = ZeroStats
    /\ ParseIdle
    /\ RetryIdle
    /\ RoundIdle
    /\ PeerIdle
    /\ DiscoverIdle

SpecSameName == InitSameName /\ [][Next]_vars

\* ---------------------------------------------------------------------------
\* C29: identifier equality
\* ---------------------------------------------------------------------------

SameParts(p, q) ==
    /\ tree[p[1]].name = tree[q[1]].name
    /\ tree[p[1]].pdfs[p[2]].round = tree[q[1]].pdfs[q[2]].round
    /\ tree[p[1]].pdfs[p[2]].name = tree[q[1]].pdfs[q[2]].name

IdentifierEquality ==
    \A p, q \in PdfsOfTree : (IdOf(p) = IdOf(q)) <=> SameParts(p, q)

\* the pairs of a first and a second file of one name in one round of a district
SameNamedPairs ==
    {pq \in PdfsOfTree \X PdfsOfTree :
        pq[1][1] = pq[2][1] /\ pq[1][2] < pq[2][2] /\ SameParts(pq[1], pq[2])}

\* every page of the file at this place was analyzed in the run without an
\* exception, so that process_pdf went on to mark the file
CompletedIn(p, run) ==
    /\ tree[p[1]].pdfs[p[2]].openable
    /\ \A g \in 0..(Len(PagesOf(p)) - 1) :
           \E e \in pagelog : e.at = p /\ e.run = run /\ e.page = g /\ ~e.raised

MaxWork == 3

WorkIds == {get_pdf_identifier("a", d, "1") : d \in 1..MaxWork}

\* the first process has been constructed: __init__, line 109
InitPeers ==
    /\ tracker_file \in {NoTrackerFile, save_processed_pdfs(FirstIds(1), NoTrackerFile)}
    /\ processed_pdfs = load_processed_pdfs(tracker_file)
    /\ loaded = load_processed_pdfs(tracker_file)
    /\ pc = "loaded"
    /\ tree = <<>>
    /\ phase = "idle"
    /\ district_idx = 0
    /\ pdf_idx = 0
    /\ page_idx = 0
    /\ pdf_records = <<>>
    /\ all_records = <<>>
    /\ summary_data = <<>>
    /\ summary_row = NewSummaryRow(0)
    /\ main_csv = NoCsvFile
    /\ summary_csv = NoCsvFile
    /\ pagelog = {}
    /\ interrupted_at = 0
    /\ stats = ZeroStats
    /\ ParseIdle
    /\ RetryIdle
    /\ RoundIdle
    /\ PeerIdle
    /\ DiscoverIdle

peerRest ==
    <<discoverVars, processed_pdfs, loaded, pc, roundVars, parseVars, retryVars, stats, tree, phase,
      district_idx, pdf_idx, page_idx, pdf_records, all_records, summary_data, summary_row,
      main_csv, summary_csv, pagelog, interrupted_at>>

\* the first process marks one of the PDFs
MarkWork == \E id \in WorkIds : MarkOp(id)

\* a second process is started on the same directory: nothing in __init__
\* (lines 94-109) looks for another process or takes a lock; it loads the
\* document as it is on disk at that moment
PeerStart ==
    /\ peer_pc = "absent"
    /\ peer_pdfs' = load_processed_pdfs(tracker_file)
    /\ peer_pc' = "loaded"
    /\ UNCHANGED <<tracker_file, peerRest>>

PeerBetweenOperations == peer_pc \in {"loaded", "ready"}

\* mark_pdf_as_processed in the second process
PeerMark ==
    /\ PeerBetweenOperations
    /\ \E id \in WorkIds :
           peer_pdfs' = mark_pdf_as_processed(peer_pdfs, tracker_file, id[3], id[1], id[2]).set
    /\ IF SaveDue(peer_pdfs')
       THEN tracker_file' = open_for_writing(tracker_file) /\ peer_pc' = "saving"
       ELSE UNCHANGED tracker_file /\ peer_pc' = "ready"
    /\ UNCHANGED peerRest

\* save_processed_pdfs in the second process, called by a checkpoint, up to
\* the open of line 163
PeerSave ==
    /\ PeerBetweenOperations
    /\ tracker_file' = open_for_writing(tracker_file)
    /\ peer_pc' = "saving"
    /\ UNCHANGED <<peer_pdfs, peerRest>>

\* json.dump, line 164, in the second process
PeerWrite ==
    /\ peer_pc = "saving"
    /\ tracker_file' = save_processed_pdfs(peer_pdfs, tracker_file)
    /\ peer_pc' = "ready"
    /\ UNCHANGED <<peer_pdfs, peerRest>>

NextPeers ==
    \/ MarkWork
    \/ SaveOp
    \/ WriteDocument
    \/ PeerStart
    \/ PeerMark
    \/ PeerSave
    \/ PeerWrite

SpecPeers == InitPeers /\ [][NextPeers]_vars

\* ---------------------------------------------------------------------------
\* C30: two processes on one tracker document
\* ---------------------------------------------------------------------------

\* the identifiers a load of the document on disk gives
OnDisk == load_processed_pdfs(tracker_file)

\* the step opens the document for writing
OpensForWriting == tracker_file' = open_for_writing(tracker_file) /\ tracker_file' # tracker_file

\* the set the process that opens the document is about to write
SetOfTheWriter == IF pc' = "saving" /\ pc # "saving" THEN processed_pdfs' ELSE peer_pdfs'

\* no step that opens the document for writing drops an identifier the
\* document holds
NoSaveDropsIdentifiers == [][OpensForWriting => OnDisk \subseteq SetOfTheWriter]_vars

\* the second process has loaded the document while the first is in its run
BothMidRun == peer_pc \in {"loaded", "ready", "saving"} /\ pc \in {"loaded", "ready", "saving"}

\* C30, as stated: while one analyzer is mid-run no second one loads and saves
\* the same tracker document, and no save drops an identifier the document
\* holds: every save writes at least the identifiers that were on disk.
C30_NoConcurrentSaveDropsIdentifiers ==
    /\ [](BothMidRun => peer_pc = "loaded")
    /\ NoSaveDropsIdentifiers

\* What holds: as long as no second process is started, no save drops an
\* identifier the document holds
AloneNoSaveDropsIdentifiers ==
    [][(OpensForWriting /\ peer_pc = "absent") => OnDisk \subseteq processed_pdfs']_vars

\* ---------------------------------------------------------------------------
\* From the input root to the PDFs handed to process_pdf
\* ---------------------------------------------------------------------------

\* list.sort(key=...) and sorted(): stable, ascending
StableSort(seq, Key(_)) ==
    LET Before(k, j) == Key(seq[k]) < Key(seq[j]) \/ (Key(seq[k]) = Key(seq[j]) /\ k < j)
        Rank(j) == Cardinality({k \in 1..Len(seq) : Before(k, j)}) + 1
    IN  [i \in 1..Len(seq) |-> seq[CHOOSE j \in 1..Len(seq) : Rank(j) = i]]

\* seq[:n]
Take(seq, n) == SubSeq(seq, 1, IF n < Len(seq) THEN n ELSE Len(seq))

\* an optional int argument: None, or a number
NoLimit == [given |-> FALSE, n |-> 0]
Limit(n) == [given |-> TRUE, n |-> n]

\* "if limit:" is false for None and for 0
LimitApplies_AlsoZero(limit) == limit.given

LimitApplies(limit) == limit.given /\ limit.n # 0

\* a PDF file that rglob finds, with the page count fitz gives for it
PdfFile(name, openable, page_count) ==
    [name |-> name, openable |-> openable, page_count |-> page_count]

Folder(name, pdfs) == [name |-> name, pdfs |-> pdfs]
Directory(name, subfolders) == [name |-> name, is_dir |-> TRUE, subfolders |-> subfolders]
PlainFile(name) == [name |-> name, is_dir |-> FALSE, subfolders |-> <<>>]

\* the order of the names under sorted(): by code point
NameOrder(name) ==
    CASE name = ".DS_Store" -> 1
      [] name = ".git" -> 2
      [] name = "A" -> 3
      [] name = "B" -> 4
      [] name = "__pycache__" -> 5
      [] OTHER -> 6

\* the only names lines 757-758 leave out
SkippedNames == {".DS_Store", "__pycache__"}

\* all_district_folders, lines 757-758
AllDistrictFolders(entries) ==
    SelectSeq(entries, LAMBDA d : d.is_dir /\ d.name \notin SkippedNames)

\* district_folders before the loop, lines 761-774 with no district_names given
DistrictFolders(entries, limit_districts) ==
    IF LimitApplies(limit_districts)
    THEN Take(StableSort(AllDistrictFolders(entries), LAMBDA d : NameOrder(d.name)),
              limit_districts.n)
    ELSE AllDistrictFolders(entries)

\* the page count the sort uses: 0 for a file fitz cannot open (lines 672-680)
CountForSort(pdf) == IF pdf.openable THEN pdf.page_count ELSE 0

\* get_pdfs_sorted_by_page_count
get_pdfs_sorted_by_page_count(folder, limit) ==
    LET sorted_pdfs == StableSort(folder.pdfs, CountForSort)
    IN  IF LimitApplies(limit) THEN Take(sorted_pdfs, limit.n) ELSE sorted_pdfs

\* the rounds the loop of line 799 goes through, in its order
RoundsProcessed_AlsoFive == <<"1", "2", "3", "4", "5">>

RoundsProcessed == <<"1", "2", "3", "4">>

\* the call of process_pdf for one file of a round folder
Handing(district, round_num, folder, pdf) ==
    [district |-> district.name, round |-> round_num, folder |-> folder.name,
     name |-> pdf.name, openable |-> pdf.openable, page_count |-> pdf.page_count]

\* the PDFs of one round of a district, in the order they are handed to
\* process_pdf (lines 800-821), none if the district has no folder of the round
PdfsOfRound(district, folders, round_num, limit) ==
    IF \E p \in folders : p[1] = round_num
    THEN LET folder == CHOOSE f \in Range(district.subfolders) :
                           f.name = FolderOf(folders, round_num)[2]
             pdf_files == get_pdfs_sorted_by_page_count(folder, limit)
         IN  [i \in 1..Len(pdf_files) |-> Handing(district, round_num, folder, pdf_files[i])]
    ELSE <<>>

RECURSIVE PdfsOfRounds(_, _, _, _)
PdfsOfRounds(district, folders, rounds, limit) ==
    IF rounds = <<>> THEN <<>>
    ELSE PdfsOfRound(district, folders, Head(rounds), limit)
             \o PdfsOfRounds(district, folders, Tail(rounds), limit)

\* enumerate(sorted(district_folders)), line 776
FolderAt(i) == StableSort(district_folders, LAMBDA d : NameOrder(d.name))[i]

CurFolder == FolderAt(district_idx)

\* lines 756-776: the district folders of the run
ListDistricts ==
    /\ pc = "discover"
    /\ district_folders' = DistrictFolders(base_dir, config.limit_districts)
    /\ district_idx' = 0
    /\ pc' = "district"
    /\ UNCHANGED <<base_dir, config, handed>>
    /\ UNCHANGED <<peerVars, roundVars, parseVars, retryVars, stats, tree, phase, pdf_idx,
                   page_idx, pdf_records, all_records, summary_data, summary_row,
                   processed_pdfs, loaded, diskVars, pagelog, interrupted_at>>

\* lines 778-782: the next district, up to the loop of get_round_folders
EnterDistrict ==
    /\ pc = "district"
    /\ district_idx < Len(district_folders)
    /\ district_idx' = district_idx + 1
    /\ listing' = [i \in 1..Len(FolderAt(district_idx + 1).subfolders) |->
                       FolderAt(district_idx + 1).subfolders[i].name]
    /\ scanned' = 0
    /\ round_folders' = {}
    /\ pc' = "rounds"
    /\ UNCHANGED <<discoverVars, peerVars, parseVars, retryVars, stats, tree, phase, pdf_idx,
                   page_idx, pdf_records, all_records, summary_data, summary_row,
                   processed_pdfs, loaded, diskVars, pagelog, interrupted_at>>

\* lines 799-836: the rounds of the district, each with its PDFs in order
ProcessRounds ==
    /\ pc = "rounds"
    /\ scanned = Len(listing)
    /\ LET pdfs == PdfsOfRounds(CurFolder, round_folders, RoundsProcessed,
                                config.limit_pdfs_per_round)
       IN  /\ handed' = handed \o pdfs
           /\ summary_data' = Append(summary_data,
                  [NewSummaryRow(CurFolder.name) EXCEPT !.Total_PDFs = Len(pdfs)])
    /\ pc' = "district"
    /\ UNCHANGED <<base_dir, config, district_folders>>
    /\ UNCHANGED <<peerVars, roundVars, parseVars, retryVars, stats, tree, phase, district_idx,
                   pdf_idx, page_idx, pdf_records, all_records, summary_row,
                   processed_pdfs, loaded, diskVars, pagelog, interrupted_at>>

\* the loop of line 776 has gone through every district folder
EndDistricts ==
    /\ pc = "district"
    /\ district_idx = Len(district_folders)
    /\ pc' = "listed"
    /\ UNCHANGED <<discoverVars, peerVars, roundVars, parseVars, retryVars, stats, tree, phase,
                   district_idx, pdf_idx, page_idx, pdf_records, all_records, summary_data,
                   summary_row, processed_pdfs, loaded, diskVars, pagelog, interrupted_at>>

\* folder names
FolderR1 == <<"R", "1">>
FolderR2 == <<"R", "2">>
FolderR5 == <<"R", "5">>
FolderDocs == <<"d", "o", "c", "s">>

\* what rglob may find under a round folder, in its order
PdfLists ==
    { <<PdfFile("c", TRUE, 3), PdfFile("a", TRUE, 1), PdfFile("b", TRUE, 2)>>,
      <<PdfFile("b", TRUE, 2), PdfFile("x", FALSE, 0), PdfFile("a", TRUE, 1)>>,
      <<PdfFile("a", TRUE, 2), PdfFile("b", TRUE, 2), PdfFile("c", TRUE, 1)>>,
      <<>> }

OnePdf(name) == <<PdfFile(name, TRUE, 1)>>

\* what iterdir() may find under the input root
RootEntries ==
    {Directory("A", <<Folder(FolderR1, pdfs)>>) : pdfs \in PdfLists}
    \cup { Directory("A", <<Folder(FolderR5, OnePdf("e")), Folder(FolderR1, OnePdf("a")),
                            Folder(FolderDocs, OnePdf("d"))>>),
           Directory("B", <<Folder(FolderR2, OnePdf("b")), Folder(FolderR1, OnePdf("a"))>>),
           Directory(".git", <<Folder(FolderR1, OnePdf("h"))>>),
           Directory("__pycache__", <<Folder(FolderR1, OnePdf("p"))>>),
           PlainFile(".DS_Store"),
           PlainFile("notes.txt") }

\* the most entries under the input root
MaxEntries == 2

Roots ==
    {r \in UNION {[1..n -> RootEntries] : n \in 1..MaxEntries} :
        \A i, j \in 1..Len(r) : i # j => r[i].name # r[j].name}

Configs ==
    [limit_districts : {NoLimit, Limit(1)},
     limit_pdfs_per_round : {NoLimit, Limit(0), Limit(1), Limit(2)}]

InitDiscover ==
    /\ base_dir \in Roots
    /\ config \in Configs
    /\ district_folders = <<>>
    /\ handed = <<>>
    /\ pc = "discover"
    /\ tree = <<>>
    /\ phase = "idle"
    /\ district_idx = 0
    /\ pdf_idx = 0
    /\ page_idx = 0
    /\ pdf_records = <<>>
    /\ all_records = <<>>
    /\ summary_data = <<>>
    /\ summary_row = NewSummaryRow(0)
    /\ processed_pdfs = {}
    /\ loaded = {}
    /\ tracker_file = NoTrackerFile
    /\ main_csv = NoCsvFile
    /\ summary_csv = NoCsvFile
    /\ pagelog = {}
    /\ interrupted_at = 0
    /\ stats = ZeroStats
    /\ ParseIdle
    /\ RetryIdle
    /\ RoundIdle
    /\ PeerIdle

NextDiscover ==
    \/ ListDistricts
    \/ EnterDistrict
    \/ VisitFolder
    \/ ProcessRounds
    \/ EndDistricts

SpecDiscover == InitDiscover /\ [][NextDiscover]_vars

\* ---------------------------------------------------------------------------
\* C31: hidden and system directories
\* ---------------------------------------------------------------------------

DiscoveryEnded == pc = "listed"

\* a name that starts with a dot, or the name of a system directory
HiddenOrSystem(name) == name \in {".DS_Store", ".git", "__pycache__"}

\* C31, as stated: no directory directly under the input root whose name
\* starts with a dot, and no system directory, is taken as a district, and no
\* PDF under one is handed to process_pdf.
C31_HiddenDirectoriesSkipped ==
    /\ \A i \in 1..Len(district_folders) : ~HiddenOrSystem(district_folders[i].name)
    /\ \A i \in 1..Len(handed) : ~HiddenOrSystem(handed[i].district)

\* What holds: plain files and the two names of lines 757-758 are left out
ListedNamesSkipped ==
    /\ \A i \in 1..Len(district_folders) :
           district_folders[i].is_dir /\ district_folders[i].name \notin SkippedNames
    /\ \A i \in 1..Len(handed) : handed[i].district \notin SkippedNames

\* the run went through a root that holds __pycache__ and handed PDFs out
SystemDirectoryPassedOver ==
    /\ DiscoveryEnded
    /\ \E i \in 1..Len(base_dir) : base_dir[i].name = "__pycache__"
    /\ handed # <<>>

\* ---------------------------------------------------------------------------
\* C37: order and limit of the PDFs of a round
\* ---------------------------------------------------------------------------

\* the PDFs of one round of one district that were handed to process_pdf
HandedOf(district_name, round_num) ==
    SelectSeq(handed, LAMBDA e : e.district = district_name /\ e.round = round_num)

SubfolderNames(district) ==
    [i \in 1..Len(district.subfolders) |-> district.subfolders[i].name]

\* the districts and rounds of the run that have a round folder, with the folder
RoundsPresent ==
    {t \in Range(district_folders) \X {"1", "2", "3", "4"}
                \X UNION {Range(e.subfolders) : e \in Range(base_dir)} :
        /\ <<t[2], t[3].name>> \in get_round_folders(SubfolderNames(t[1]))
        /\ t[3] \in Range(t[1].subfolders)}

Ascending(seq) == \A i, j \in 1..Len(seq) : i < j => seq[i].page_count <= seq[j].page_count

\* the names handed out are names of the folder, each once
FromTheFolder(seq, folder) ==
    /\ \A i \in 1..Len(seq) : \E k \in 1..Len(folder.pdfs) : folder.pdfs[k].name = seq[i].name
    /\ \A i, j \in 1..Len(seq) : i # j => seq[i].name # seq[j].name

\* no PDF left out has fewer pages than one handed out
TheSmallest(seq, folder) ==
    \A i \in 1..Len(seq) : \A k \in 1..Len(folder.pdfs) :
        (\A j \in 1..Len(seq) : seq[j].name # folder.pdfs[k].name) =>
            seq[i].page_count <= folder.pdfs[k].page_count

Smaller(a, b) == IF a < b THEN a ELSE b

\* C37, as stated: the PDFs of a round are handed to process_pdf in ascending
\* order of page count; with a limit n configured they are exactly the n PDFs
\* of the folder with the smallest page counts, all of them if the folder has
\* fewer than n, and with no limit all of them.
C37_SmallestFirstUpToLimit ==
    DiscoveryEnded =>
        \A t \in RoundsPresent :
            LET seq == HandedOf(t[1].name, t[2])
                limit == config.limit_pdfs_per_round
            IN  /\ Ascending(seq)
                /\ FromTheFolder(seq, t[3])
                /\ TheSmallest(seq, t[3])
                /\ Len(seq) = IF limit.given THEN Smaller(limit.n, Len(t[3].pdfs))
                              ELSE Len(t[3].pdfs)

\* What holds: the same with a limit of at least 1; a limit of 0 is no limit
SmallestFirstUpToPositiveLimit ==
    DiscoveryEnded =>
        \A t \in RoundsPresent :
            LET seq == HandedOf(t[1].name, t[2])
                limit == config.limit_pdfs_per_round
            IN  /\ Ascending(seq)
                /\ FromTheFolder(seq, t[3])
                /\ TheSmallest(seq, t[3])
                /\ Len(seq) = IF limit.given /\ limit.n >= 1
                              THEN Smaller(limit.n, Len(t[3].pdfs))
                              ELSE Len(t[3].pdfs)

\* a limit of 2 has cut a folder of three PDFs
LimitCutAFolder ==
    /\ DiscoveryEnded
    /\ config.limit_pdfs_per_round = Limit(2)
    /\ \E t \in RoundsPresent : Len(t[3].pdfs) = 3 /\ Len(HandedOf(t[1].name, t[2])) = 2

\* ---------------------------------------------------------------------------
\* C39: the rounds of a district
\* ---------------------------------------------------------------------------

RoundRank(round_num) ==
    CASE round_num = "1" -> 1
      [] round_num = "2" -> 2
      [] round_num = "3" -> 3
      [] round_num = "4" -> 4
      [] OTHER -> 5

\* C39: every PDF handed to process_pdf lies in a folder that normalizes to
\* one of the rounds 1 to 4 and is handed out under that round; within a
\* district the rounds come in ascending order; and the summary row of a
\* district counts the PDFs handed out for it and no other, so that nothing
\* under a folder of round 5, or of no round, is processed or counted.
C39_OnlyRoundsOneToFourInOrder ==
    /\ \A i \in 1..Len(handed) :
           /\ handed[i].round \in {"1", "2", "3", "4"}
           /\ normalize_round_name(handed[i].folder) = handed[i].round
    /\ \A i, j \in 1..Len(handed) :
           (i < j /\ handed[i].district = handed[j].district) =>
               RoundRank(handed[i].round) <= RoundRank(handed[j].round)
    /\ \A k \in 1..Len(summary_data) :
           summary_data[k].Total_PDFs =
               Cardinality({i \in 1..Len(handed) : handed[i].district = summary_data[k].District})

\* a district with a folder of round 5, a folder of no round and a folder of
\* round 1 has been gone through, and only the PDF of round 1 was handed out
C39_Witness ==
    /\ DiscoveryEnded
    /\ \E d \in Range(district_folders) :
           /\ \E f \in Range(d.subfolders) : normalize_round_name(f.name) = "5" /\ f.pdfs # <<>>
           /\ \E f \in Range(d.subfolders) : normalize_round_name(f.name) = NoRound /\ f.pdfs # <<>>
           /\ Cardinality({i \in 1..Len(handed) : handed[i].district = d.name}) = 1

\* ---------------------------------------------------------------------------
\* C32: the tracker document and the main table on disk
\* ---------------------------------------------------------------------------

\* the identifier of the PDF a record was extracted from
IdOfRecord(record) == get_pdf_identifier(record.source_file, record.district, record.round)

\* the records of the run whose PDF is in the tracker document on disk
RecordsOfPersistedPdfs ==
    {r \in Range(all_records) \cup Range(pdf_records) :
        IdOfRecord(r) \in load_processed_pdfs(tracker_file)}

InMainTable(record) == writerow(to_dict(record)) \in Range(main_csv.rows)

\* C32, as stated: at every point where the run may be interrupted, the
\* records of every PDF whose identifier is in the tracker document on disk
\* are in the main table on disk.
C32_PersistedIdentifierHasPersistedRecords ==
    Running => \A r \in RecordsOfPersistedPdfs : InMainTable(r)

\* What holds: once the run has ended with its final save
PersistedRecordsAtTheEnd ==
    pc = "done" => \A r \in RecordsOfPersistedPdfs : InMainTable(r)

\* the run has ended and the document on disk names a PDF that gave records
RunEndedWithPersistedRecords ==
    /\ pc = "done"
    /\ phase = "first"
    /\ RecordsOfPersistedPdfs # {}

\* ---------------------------------------------------------------------------
\* C33: the type of what parse_json_with_recovery returns
\* ---------------------------------------------------------------------------

\* a list whose every element is a dictionary
IsListOfDicts(val) ==
    /\ val.t = "arr"
    /\ \A i \in 1..Len(val.v) : val.v[i].t = "obj"

\* C33, as stated: whenever parse_json_with_recovery returns, its result is a
\* list of dictionaries; a single object, a scalar, null or a list of other
\* values is never returned.
C33_RecoverReturnsListOfDicts ==
    ppc = "returned" => IsListOfDicts(presult)

\* What holds: the result of the object salvage is a list of dictionaries, and
\* every result is the value of a JSON text
SalvageReturnsListOfDicts ==
    [][(ppc = "strategy4" /\ ppc' = "returned") => IsListOfDicts(presult')]_vars

\* a text that is one JSON object, or one number, has been returned as it is
NonListReturned ==
    /\ ppc = "returned"
    /\ presult.t \in {"obj", "num", "null", "str"}

\* ---------------------------------------------------------------------------
\* C34: object-level salvage
\* ---------------------------------------------------------------------------

\* From an opening brace on: the index of the brace that closes it, with at
\* most one level of braces inside, or 0. depth is 1 inside the object and 2
\* inside an object nested in it.
RECURSIVE ClosingBrace(_, _, _)
ClosingBrace(s, i, depth) ==
    IF i > Len(s) THEN 0
    ELSE IF s[i] = "{"
         THEN IF depth = 2 THEN 0 ELSE ClosingBrace(s, i + 1, 2)
    ELSE IF s[i] = "}"
         THEN IF depth = 2 THEN ClosingBrace(s, i + 1, 1) ELSE i
    ELSE ClosingBrace(s, i + 1, depth)

\* the brace-delimited pieces of the text, from left to right, none inside
\* another
RECURSIVE BracePieces(_, _)
BracePieces(s, p) ==
    IF p > Len(s) THEN <<>>
    ELSE IF s[p] = "{" /\ ClosingBrace(s, p + 1, 1) > 0
         THEN <<SubSeq(s, p, ClosingBrace(s, p + 1, 1))>>
                  \o BracePieces(s, ClosingBrace(s, p + 1, 1) + 1)
         ELSE BracePieces(s, p + 1)

\* the piece parses on its own as an object with a non-empty "software"
HasSoftware(piece) ==
    /\ json_loads(piece).ok
    /\ json_loads(piece).v.t = "obj"
    /\ ObjGet(json_loads(piece).v.v, SoftwareKey) \notin
           {JNull, JStr(<<>>), JArr(<<>>), JObj(<<>>)}

\* the objects of the pieces that have the field, in their order
SalvagedObjects(s) ==
    LET pieces == BracePieces(s, 1)
        kept == SelectSeq(pieces, HasSoftware)
    IN  [i \in 1..Len(kept) |-> json_loads(kept[i]).v]

-----------------------------------------------------------------------------
(* The empty answer *)

\* the answer of attempt i is a JSON array without elements
EmptyArrayAnswer(i) ==
    /\ responses[i].kind = "content"
    /\ json_loads(CleanResponse(responses[i].text)) = [ok |-> TRUE, v |-> JArr(<<>>)]

\* C35: an answer that is an empty JSON array is a success: the attempt
\* that receives it returns the empty list, no further attempt is made (the
\* calls made stay at that attempt's number), and errors_encountered is not
\* incremented.
C35_EmptyArrayIsSuccess ==
    [][(Attempting /\ EmptyArrayAnswer(call.attempt + 1))
        => /\ call'.state = "returned"
           /\ call'.records = <<>>
           /\ call'.attempt = call.attempt
           /\ stats'.api_calls_made = stats.api_calls_made + 1
           /\ stats'.errors_encountered = stats.errors_encountered
           /\ ~Attempting']_vars

\* a call whose first answer was prose and whose second was the empty array
\* has ended with two calls made, no record and no error counted
C35_Witness ==
    /\ CallEnded
    /\ responses[1] = Answer(ProseOnly)
    /\ EmptyArrayAnswer(2)
    /\ call.state = "returned"
    /\ call.records = <<>>
    /\ stats.api_calls_made = 2
    /\ stats.errors_encountered = 0

-----------------------------------------------------------------------------
(* The fields of the context, checked under SpecConvert *)

HasKey(pairs, key) == \E k \in 1..Len(pairs) : pairs[k][1] = key

\* C36: every record analyze returns for page index p (0-based) of file f in
\* district d under round token r carries district d, round r, source file f
\* and page number p + 1, whatever the dictionary holds under keys of those
\* names or any other.
C36_RecordsCarryTheContext ==
    /\ Len(call.records) <= Len(presult.v)
    /\ \A i \in 1..Len(call.records) :
           /\ call.records[i].district = RetryCtx.district
           /\ call.records[i].round = RetryCtx.round
           /\ call.records[i].source_file = RetryCtx.source_file
           /\ call.records[i].page_number = ToString(page_idx + 1)

\* the call for the second page has returned the record of a dictionary that
\* holds a district, a round, a source_file and a page_number of its own
C36_Witness ==
    /\ call.state = "returned"
    /\ page_idx = 1
    /\ Len(call.records) = 1
    /\ \A key \in {DistrictKey, RoundKey, SourceFileKey, PageNumberKey} :
           HasKey(presult.v[1].v, key)
    /\ call.records[1].page_number = "2"

-----------------------------------------------------------------------------
(* PDFs that cannot be opened, checked under Spec *)

\* process_pdf has been called for a PDF that fitz.open raises on
AtUnopenablePdf == HasPdf /\ ~CurPdf.openable

\* the PDFs of the tree that cannot be opened, as <<district, position>>
UnopenablePdfs ==
    {at \in (1..Len(tree)) \X (1..2) :
         /\ at[2] <= Len(tree[at[1]].pdfs)
         /\ ~tree[at[1]].pdfs[at[2]].openable}

IdAt(at) ==
    get_pdf_identifier(tree[at[1]].pdfs[at[2]].name, tree[at[1]].name,
                       tree[at[1]].pdfs[at[2]].round)

\* record is of the PDF at that place
RecordOf(record, at) ==
    /\ record.district = tree[at[1]].name
    /\ record.round = tree[at[1]].pdfs[at[2]].round
    /\ record.source_file = tree[at[1]].pdfs[at[2]].name

====
